---- MODULE Spec2Model ----
(***************************************************************************)
(* Model of the engagement and fan-out handlers of the micro-blogging      *)
(* backend: follow / unfollow, like, retweet, reply and tweet creation     *)
(* with the trending upsert and the mention notifications.                 *)
(*                                                                         *)
(* Every Express handler is an async function: between two awaits it runs  *)
(* without interruption, and at an await other requests may run.  A        *)
(* handler is therefore cut into steps, one per awaited database call      *)
(* that can be observed by, or can observe, another request.  Each step    *)
(* is an operator  step(d, q)  from the database  d  and the request's     *)
(* local state  q  to the pair after the step; the actions apply one step  *)
(* of one request in flight, and  Run(d, q)  applies the steps of one      *)
(* request until it has answered (the handler run with no other request    *)
(* in between).                                                            *)
(*                                                                         *)
(* Documents are Mongoose documents.  doc.save() sends only what was       *)
(* changed: an array changed by push() is sent as an atomic $push of the   *)
(* pushed element (appended to the stored array, the version key __v       *)
(* incremented, no condition on __v); an array that was assigned (the      *)
(* result of filter()) is sent as a $set of the whole array under the      *)
(* condition that __v still is the version that was read, and fails with   *)
(* a VersionError otherwise; an assignment of an equal array marks nothing *)
(* modified and sends nothing.                                             *)
(***************************************************************************)
EXTENDS Integers, Sequences, FiniteSets, TLC

\* ------------------------------------------------------------------ bounds
NumUsers == 2
MaxReq == 2
MaxOps == 3
MaxTextLen == 4
LogLen == 2

Users == 1..NumUsers
Slots == 1..MaxReq

VARIABLES users, tweets, notifications, trending, images, nextId, reqs, log, nops,
          created, emitted, sockets, refreshToken, now, replaced

vars == <<users, tweets, notifications, trending, images, nextId, reqs, log, nops,
          created, emitted, sockets, refreshToken, now, replaced>>

\* ----------------------------------------------------------------- helpers
\* Array.prototype.includes on an array of ids
Includes(arr, x) == \E i \in DOMAIN arr : arr[i] = x

\* arr.filter(e => e.toString() !== x.toString())
Without(arr, x) == SelectSeq(arr, LAMBDA e : e # x)

Range(arr) == {arr[i] : i \in DOMAIN arr}

\* the database as one value, for the step operators
\* created  is history: the hashtags of every Tweet document ever inserted
\* emitted  is history: the socket.io events emitted so far, oldest first
DB == [users |-> users, tweets |-> tweets, notifications |-> notifications,
       trending |-> trending, images |-> images, nextId |-> nextId,
       created |-> created, emitted |-> emitted]

\* the locals of a handler that holds no tweet
NoTweet == [text |-> <<>>, author |-> 0, imageUrl |-> 0,
            likes |-> <<>>, retweets |-> <<>>, replies |-> <<>>,
            parentTweet |-> 0, isRetweet |-> FALSE, isReply |-> FALSE,
            originalTweet |-> 0, hashtags |-> <<>>, v |-> 0]

\* a request: what the client sent, where the handler stands, its locals
\* (the document it holds, the version it read), and its answer;  fault
\* names the awaited call of a side effect that rejects during this request
\* ("none", "notification", "trending" or "image");  page  and  limit  are
\* the query parameters of a list request, with the handlers' defaults, and
\* body  is the list answered
NewReq(op, actor, target, text, file) ==
  [arr |-> <<>>, text |-> text, op |-> op, actor |-> actor, target |-> target,
   file |-> file, pc |-> "begin", status |-> 0, msg |-> "",
   readV |-> 0, already |-> FALSE, changed |-> FALSE,
   owner |-> 0, newId |-> 0, tags |-> <<>>, ments |-> <<>>, found |-> FALSE,
   flag |-> FALSE, count |-> 0, doc |-> NoTweet, fault |-> "none",
   page |-> 1, limit |-> 10, body |-> <<>>]

Idle == [NewReq("none", 0, 0, <<>>, FALSE) EXCEPT !.pc = "idle"]

\* res.status(code).json({message}) or next(error): the handler has answered
Answer(q, code, message) == [q EXCEPT !.pc = "done", !.status = code, !.msg = message]

\* notifications[i] is the Notification document created i-th, which is its
\* id; a deleted document leaves  Gone  at its id, so that ids are not reused
Gone == [recipient |-> 0, sender |-> 0, type |-> "deleted", tweet |-> 0,
         read |-> FALSE]

\* Notification.create({recipient, sender, type, tweet}); read defaults to false
NotificationCreate(d, recipient, sender, type, tweet) ==
  [d EXCEPT !.notifications =
     Append(@, [recipient |-> recipient, sender |-> sender, type |-> type,
                tweet |-> tweet, read |-> FALSE])]

\* ------------------------------------------------------------ followUser
\* findById(id), the two guards, and the local push on the target's document
followUser_find_noSelfGuard(d, q) ==
  IF Includes(d.users[q.target].followers, q.actor)
  THEN [d |-> d, q |-> Answer(q, 400, "You are already following this user")]
  ELSE [d |-> d, q |-> [q EXCEPT !.pc = "f_saveTarget"]]

followUser_find(d, q) ==
  IF q.actor = q.target
  THEN [d |-> d, q |-> Answer(q, 400, "You cannot follow yourself")]
  ELSE IF Includes(d.users[q.target].followers, q.actor)
  THEN [d |-> d, q |-> Answer(q, 400, "You are already following this user")]
  ELSE [d |-> d, q |-> [q EXCEPT !.pc = "f_saveTarget"]]

\* userToFollow.save(): $push of the actor to the target's followers
followUser_saveTarget_skip(d, q) ==
  [d |-> d, q |-> [q EXCEPT !.pc = "f_saveSelf"]]

followUser_saveTarget(d, q) ==
  [d |-> [d EXCEPT !.users[q.target].followers = Append(@, q.actor),
                   !.users[q.target].v = @ + 1],
   q |-> [q EXCEPT !.pc = "f_saveSelf"]]

\* findById(req.user._id), push, save(): $push of the target to the actor's
\* following (the document read is used for nothing else)
followUser_saveSelf(d, q) ==
  [d |-> [d EXCEPT !.users[q.actor].following = Append(@, q.target),
                   !.users[q.actor].v = @ + 1],
   q |-> [q EXCEPT !.pc = "f_notify"]]

\* Notification.create({type: 'follow'}) and the answer
followUser_notify(d, q) ==
  [d |-> NotificationCreate(d, q.target, q.actor, "follow", 0),
   q |-> Answer(q, 200, "User followed successfully")]

\* ---------------------------------------------------------- unfollowUser
\* findById(id), the two guards, and the filtered followers assigned locally
unfollowUser_find(d, q) ==
  IF q.actor = q.target
  THEN [d |-> d, q |-> Answer(q, 400, "You cannot unfollow yourself")]
  ELSE IF ~Includes(d.users[q.target].followers, q.actor)
  THEN [d |-> d, q |-> Answer(q, 400, "You are not following this user")]
  ELSE [d |-> d,
        q |-> [q EXCEPT !.pc = "u_saveTarget",
                        !.arr = Without(d.users[q.target].followers, q.actor),
                        !.readV = d.users[q.target].v]]

\* userToUnfollow.save(): $set of the followers where __v is the version read
unfollowUser_saveTarget(d, q) ==
  IF d.users[q.target].v # q.readV
  THEN [d |-> d, q |-> Answer(q, 500, "VersionError")]
  ELSE [d |-> [d EXCEPT !.users[q.target].followers = q.arr,
                        !.users[q.target].v = @ + 1],
        q |-> [q EXCEPT !.pc = "u_findSelf"]]

\* findById(req.user._id) and the filtered following assigned locally
unfollowUser_findSelf(d, q) ==
  [d |-> d,
   q |-> [q EXCEPT !.pc = "u_saveSelf",
                   !.arr = Without(d.users[q.actor].following, q.target),
                   !.changed = Includes(d.users[q.actor].following, q.target),
                   !.readV = d.users[q.actor].v]]

\* currentUser.save() and the answer; no notification
unfollowUser_saveSelf_keep(d, q) ==
  [d |-> d, q |-> Answer(q, 200, "User unfollowed successfully")]

unfollowUser_saveSelf(d, q) ==
  IF ~q.changed
  THEN [d |-> d, q |-> Answer(q, 200, "User unfollowed successfully")]
  ELSE IF d.users[q.actor].v # q.readV
  THEN [d |-> d, q |-> Answer(q, 500, "VersionError")]
  ELSE [d |-> [d EXCEPT !.users[q.actor].following = q.arr,
                        !.users[q.actor].v = @ + 1],
        q |-> Answer(q, 200, "User unfollowed successfully")]

\* ------------------------------------------------------ text of a tweet
\* A text is a sequence of characters; these are the characters of the model.
WordChars == {"a", "A", "b"}
Chars == WordChars \cup {"#", "@", " "}

\* every text of up to MaxTextLen characters
Texts == UNION {[1..n -> Chars] : n \in 0..MaxTextLen}

\* \w of the regular expressions
IsWord(c) == c \in WordChars

\* String.prototype.toLowerCase, per character
ToLower(c) == IF c = "A" THEN "a" ELSE c

Lower(w) == [i \in DOMAIN w |-> ToLower(w[i])]

\* (\w+) at position i: the longest run of word characters from i on
RECURSIVE WordRun(_, _)
WordRun(text, i) ==
  IF i > Len(text) \/ ~IsWord(text[i]) THEN <<>>
  ELSE <<text[i]>> \o WordRun(text, i + 1)

\* the loop  while ((match = /<sigil>(\w+)/g.exec(text)) !== null)  from
\* position i: the captures match[1], left to right
RECURSIVE Matches(_, _, _)
Matches(text, sigil, i) ==
  IF i > Len(text) THEN <<>>
  ELSE IF text[i] = sigil /\ WordRun(text, i + 1) # <<>>
  THEN <<WordRun(text, i + 1)>> \o Matches(text, sigil, i + 1 + Len(WordRun(text, i + 1)))
  ELSE Matches(text, sigil, i + 1)

\* [...new Set(list)]: the first occurrence of each element, in order
RECURSIVE Unique(_)
Unique(list) ==
  IF list = <<>> THEN <<>>
  ELSE LET init == Unique(SubSeq(list, 1, Len(list) - 1))
           last == list[Len(list)]
       IN IF Includes(init, last) THEN init ELSE Append(init, last)

\* the schema's  trim: true
RECURSIVE Trim(_)
Trim(text) ==
  IF text = <<>> THEN <<>>
  ELSE IF Head(text) = " " THEN Trim(Tail(text))
  ELSE IF text[Len(text)] = " " THEN Trim(SubSeq(text, 1, Len(text) - 1))
  ELSE text

\* maxlength of the schema's text
MaxTweetLen == 280

\* the pre('save') hook: the hashtags of the text, lower-cased, de-duplicated
Hashtags_keepDuplicates(text) ==
  LET m == Matches(text, "#", 1) IN [i \in DOMAIN m |-> Lower(m[i])]

Hashtags(text) ==
  LET m == Matches(text, "#", 1) IN Unique([i \in DOMAIN m |-> Lower(m[i])])

\* the handle of an account (unique)
Username(u) == IF u = 1 THEN <<"a">> ELSE [i \in 1..(u - 1) |-> "b"]

\* ------------------------------------------------------------ Tweet model
\* the validators of the schema: text required (not empty) and maxlength
TweetValid(text) == Trim(text) # <<>> /\ Len(Trim(text)) <= MaxTweetLen

\* Tweet.create(fields): the document inserted under a fresh id; 0 stands
\* for an absent reference
TweetCreate(d, text, author, imageUrl, isRetweet, originalTweet, isReply, parentTweet) ==
  [d EXCEPT
     !.tweets = @ @@ (d.nextId :>
        [text |-> Trim(text), author |-> author, imageUrl |-> imageUrl,
         likes |-> <<>>, retweets |-> <<>>, replies |-> <<>>,
         parentTweet |-> parentTweet, isRetweet |-> isRetweet,
         isReply |-> isReply, originalTweet |-> originalTweet,
         hashtags |-> Hashtags(Trim(text)), v |-> 0]),
     !.nextId = @ + 1,
     !.created = Append(@, Hashtags(Trim(text)))]

Exists(d, id) == id \in DOMAIN d.tweets

\* removal of one tweet document
TweetDelete(d, id) ==
  [d EXCEPT !.tweets = [i \in (DOMAIN d.tweets) \ {id} |-> d.tweets[i]]]

\* ----------------------------------------------------------- createTweet
\* Trending.findOneAndUpdate({tag}, {$inc: {count: 1}, $push: {tweets: id}},
\* {upsert: true}) is a query for the record of the tag and then either an
\* update of the record found, atomic on that record, or an insert
TrendingHas(tr, tag) == \E i \in DOMAIN tr : tr[i].tag = tag

TrendingUpdate(tr, tag, id) ==
  LET k == CHOOSE i \in DOMAIN tr :
             tr[i].tag = tag /\ \A j \in DOMAIN tr : tr[j].tag = tag => i <= j
  IN [tr EXCEPT ![k].count = @ + 1, ![k].tweets = Append(@, id)]

\* the insert of the upsert: the unique index on tag refuses a second record
\* of the tag, and the store then runs the operation again as an update
TrendingInsert_noUniqueIndex(tr, tag, id) ==
  Append(tr, [tweets |-> <<id>>, count |-> 1, tag |-> tag, category |-> "Trending"])

TrendingInsert(tr, tag, id) ==
  IF TrendingHas(tr, tag) THEN TrendingUpdate(tr, tag, id)
  ELSE Append(tr, [tweets |-> <<id>>, count |-> 1, tag |-> tag, category |-> "Trending"])

\* res.status(201).json({_id: populatedTweet._id, ...})
createTweet_respond(q) ==
  IF q.found THEN Answer(q, 201, "created") ELSE Answer(q, 500, "TypeError")

\* the accounts found by User.find({username: {$in: names}}) other than the author
Mentioned_withAuthor(text, actor) ==
  LET names == Range(Matches(text, "@", 1)) IN
    SelectSeq([u \in Users |-> u], LAMBDA u : Username(u) \in names)

Mentioned(text, actor) ==
  LET names == Range(Matches(text, "@", 1)) IN
    SelectSeq([u \in Users |-> u], LAMBDA u : Username(u) \in names /\ u # actor)

\* after the trending loop: the mention scan of the request's text
createTweet_afterTrending(q) ==
  IF Matches(q.text, "@", 1) = <<>> THEN createTweet_respond(q)
  ELSE [q EXCEPT !.pc = "c_mentions"]

\* the guard, the upload of the file and Tweet.create
createTweet_create(d, q) ==
  IF q.text = <<>> /\ ~q.file
  THEN [d |-> d, q |-> Answer(q, 400, "Tweet text or image is required")]
  ELSE LET up == IF q.file
                 THEN [d EXCEPT !.images = @ \cup {d.nextId}, !.nextId = @ + 1]
                 ELSE d
           imageUrl == IF q.file THEN d.nextId ELSE 0
       IN IF ~TweetValid(q.text)
          THEN [d |-> up, q |-> Answer(q, 400, "Tweet text is required")]
          ELSE [d |-> TweetCreate(up, q.text, q.actor, imageUrl, FALSE, 0, FALSE, 0),
                q |-> [q EXCEPT !.pc = "c_populate", !.newId = up.nextId,
                                !.tags = Hashtags(Trim(q.text))]]

\* Tweet.findById(tweet._id).populate('author'), then the first side effect
createTweet_populate(d, q) ==
  LET p == [q EXCEPT !.found = Exists(d, q.newId)] IN
    [d |-> d,
     q |-> IF p.tags # <<>> THEN [p EXCEPT !.pc = "c_trending"]
           ELSE createTweet_afterTrending(p)]

\* one turn of  for (const tag of tweet.hashtags): the query of the upsert,
\* and the update when the record is there
createTweet_trending(d, q) ==
  IF ~TrendingHas(d.trending, Head(q.tags))
  THEN [d |-> d, q |-> [q EXCEPT !.pc = "c_upsert"]]
  ELSE LET p == [q EXCEPT !.tags = Tail(@)] IN
         [d |-> [d EXCEPT !.trending = TrendingUpdate(@, Head(q.tags), q.newId)],
          q |-> IF p.tags # <<>> THEN p ELSE createTweet_afterTrending(p)]

\* the insert of the upsert when the query found no record;  flag  records
\* that another request had inserted the tag in between
createTweet_upsert(d, q) ==
  LET p == [q EXCEPT !.tags = Tail(@),
                     !.flag = @ \/ TrendingHas(d.trending, Head(q.tags)),
                     !.pc = "c_trending"] IN
    [d |-> [d EXCEPT !.trending = TrendingInsert(@, Head(q.tags), q.newId)],
     q |-> IF p.tags # <<>> THEN p ELSE createTweet_afterTrending(p)]

\* User.find({username: {$in: mentionedUsernames}}); the author is skipped
createTweet_mentions(d, q) ==
  LET p == [q EXCEPT !.ments = Mentioned(q.text, q.actor)] IN
    [d |-> d,
     q |-> IF p.ments # <<>> THEN [p EXCEPT !.pc = "c_notify"]
           ELSE createTweet_respond(p)]

\* one turn of  for (const user of mentionedUsers)
createTweet_notify(d, q) ==
  LET p == [q EXCEPT !.ments = Tail(@)] IN
    [d |-> NotificationCreate(d, Head(q.ments), q.actor, "mention", q.newId),
     q |-> IF p.ments # <<>> THEN p ELSE createTweet_respond(p)]

\* ------------------------------------------------- likeTweet, retweetTweet
\* tweet.save() of a pushed array ($push) or of an assigned array ($set
\* where __v is the version read); a document that is gone matches nothing
SaveTweetArray_serialized(d, q, field) ==
  IF ~Exists(d, q.target) THEN d
  ELSE [d EXCEPT !.tweets[q.target][field] =
                   IF Includes(@, q.actor) THEN Without(@, q.actor)
                   ELSE Append(@, q.actor),
                 !.tweets[q.target].v = @ + 1]

SaveTweetArray(d, q, field) ==
  IF ~Exists(d, q.target) THEN d
  ELSE IF q.already
  THEN IF d.tweets[q.target].v # q.readV THEN d
       ELSE [d EXCEPT !.tweets[q.target][field] = q.arr, !.tweets[q.target].v = @ + 1]
  ELSE [d EXCEPT !.tweets[q.target][field] = Append(@, q.actor),
                 !.tweets[q.target].v = @ + 1]

SaveFails(d, q) ==
  \/ ~Exists(d, q.target)
  \/ q.already /\ d.tweets[q.target].v # q.readV

\* findById, the membership test and the local change of tweet.likes
likeTweet_find_notifySelf(d, q) ==
  IF ~Exists(d, q.target)
  THEN [d |-> d, q |-> Answer(q, 404, "Tweet not found")]
  ELSE LET t == d.tweets[q.target]
           liked == Includes(t.likes, q.actor)
       IN [d |-> d,
           q |-> [q EXCEPT !.already = liked, !.owner = t.author, !.readV = t.v,
                    !.arr = IF liked THEN Without(t.likes, q.actor)
                            ELSE Append(t.likes, q.actor),
                    !.pc = IF liked THEN "l_save" ELSE "l_notify"]]

likeTweet_find(d, q) ==
  IF ~Exists(d, q.target)
  THEN [d |-> d, q |-> Answer(q, 404, "Tweet not found")]
  ELSE LET t == d.tweets[q.target]
           liked == Includes(t.likes, q.actor)
       IN [d |-> d,
           q |-> [q EXCEPT !.already = liked, !.owner = t.author, !.readV = t.v,
                    !.arr = IF liked THEN Without(t.likes, q.actor)
                            ELSE Append(t.likes, q.actor),
                    !.pc = IF ~liked /\ t.author # q.actor THEN "l_notify"
                           ELSE "l_save"]]

\* Notification.create({type: 'like'})
likeTweet_notify(d, q) ==
  [d |-> NotificationCreate(d, q.owner, q.actor, "like", q.target),
   q |-> [q EXCEPT !.pc = "l_save"]]

\* tweet.save() and the answer {likes: tweet.likes.length, isLiked}
likeTweet_save_retract(d, q) ==
  IF SaveFails(d, q) THEN [d |-> d, q |-> Answer(q, 500, "VersionError")]
  ELSE [d |-> [SaveTweetArray(d, q, "likes") EXCEPT !.notifications =
                 IF q.already
                 THEN SelectSeq(@, LAMBDA n : ~(n.type = "like" /\ n.sender = q.actor
                                                /\ n.tweet = q.target))
                 ELSE @],
        q |-> [Answer(q, 200, IF q.already THEN "Tweet unliked" ELSE "Tweet liked")
                 EXCEPT !.flag = ~q.already, !.count = Len(q.arr)]]

\* the whole array as the request holds it, written with no condition
likeTweet_save_overwrite(d, q) ==
  IF ~Exists(d, q.target) THEN [d |-> d, q |-> Answer(q, 500, "VersionError")]
  ELSE [d |-> [d EXCEPT !.tweets[q.target].likes = q.arr,
                        !.tweets[q.target].v = @ + 1],
        q |-> [Answer(q, 200, IF q.already THEN "Tweet unliked" ELSE "Tweet liked")
                 EXCEPT !.flag = ~q.already, !.count = Len(q.arr)]]

likeTweet_save(d, q) ==
  IF SaveFails(d, q) THEN [d |-> d, q |-> Answer(q, 500, "VersionError")]
  ELSE [d |-> SaveTweetArray(d, q, "likes"),
        q |-> [Answer(q, 200, IF q.already THEN "Tweet unliked" ELSE "Tweet liked")
                 EXCEPT !.flag = ~q.already, !.count = Len(q.arr)]]

\* findById, the membership test and the local change of tweet.retweets
retweetTweet_find(d, q) ==
  IF ~Exists(d, q.target)
  THEN [d |-> d, q |-> Answer(q, 404, "Tweet not found")]
  ELSE LET t == d.tweets[q.target]
           done == Includes(t.retweets, q.actor)
       IN [d |-> d,
           q |-> [q EXCEPT !.already = done, !.owner = t.author, !.readV = t.v,
                    !.text = t.text,
                    !.arr = IF done THEN Without(t.retweets, q.actor)
                            ELSE Append(t.retweets, q.actor),
                    !.pc = IF done THEN "rt_deleteShell" ELSE "rt_createShell"]]

\* Tweet.deleteOne({isRetweet: true, originalTweet, author}): the first match
retweetTweet_deleteShell(d, q) ==
  LET shells == {i \in DOMAIN d.tweets :
                   /\ d.tweets[i].isRetweet
                   /\ d.tweets[i].originalTweet = q.target
                   /\ d.tweets[i].author = q.actor}
  IN [d |-> IF shells = {} THEN d
            ELSE TweetDelete(d, CHOOSE i \in shells : \A j \in shells : i <= j),
      q |-> [q EXCEPT !.pc = "rt_save"]]

\* Tweet.create({author, isRetweet: true, originalTweet, text: tweet.text})
retweetTweet_createShell(d, q) ==
  IF ~TweetValid(q.text)
  THEN [d |-> d, q |-> Answer(q, 400, "Tweet text is required")]
  ELSE [d |-> TweetCreate(d, q.text, q.actor, 0, TRUE, q.target, FALSE, 0),
        q |-> [q EXCEPT !.newId = d.nextId,
                        !.pc = IF q.owner # q.actor THEN "rt_notify" ELSE "rt_save"]]

\* Notification.create({type: 'retweet'})
retweetTweet_notify(d, q) ==
  [d |-> NotificationCreate(d, q.owner, q.actor, "retweet", q.target),
   q |-> [q EXCEPT !.pc = "rt_save"]]

\* tweet.save() and the answer {retweets: tweet.retweets.length, isRetweeted}
retweetTweet_save(d, q) ==
  IF SaveFails(d, q) THEN [d |-> d, q |-> Answer(q, 500, "VersionError")]
  ELSE [d |-> SaveTweetArray(d, q, "retweets"),
        q |-> [Answer(q, 200, IF q.already THEN "Retweet undone" ELSE "Tweet retweeted")
                 EXCEPT !.flag = ~q.already, !.count = Len(q.arr)]]

\* ----------------------------------------------------------- replyToTweet
\* the guard on the text and Tweet.findById(id)
replyToTweet_find(d, q) ==
  IF q.text = <<>>
  THEN [d |-> d, q |-> Answer(q, 400, "Reply text is required")]
  ELSE IF ~Exists(d, q.target)
  THEN [d |-> d, q |-> Answer(q, 404, "Tweet not found")]
  ELSE [d |-> d, q |-> [q EXCEPT !.owner = d.tweets[q.target].author,
                                 !.pc = "r_create"]]

\* Tweet.create({text, author, isReply: true, parentTweet})
replyToTweet_create(d, q) ==
  IF ~TweetValid(q.text)
  THEN [d |-> d, q |-> Answer(q, 400, "Tweet text is required")]
  ELSE [d |-> TweetCreate(d, q.text, q.actor, 0, FALSE, 0, TRUE, q.target),
        q |-> [q EXCEPT !.newId = d.nextId, !.pc = "r_save"]]

\* parentTweet.replies.push(reply._id); parentTweet.save()
replyToTweet_save(d, q) ==
  IF ~Exists(d, q.target)
  THEN [d |-> d, q |-> Answer(q, 500, "VersionError")]
  ELSE [d |-> [d EXCEPT !.tweets[q.target].replies = Append(@, q.newId),
                        !.tweets[q.target].v = @ + 1],
        q |-> [q EXCEPT !.pc = "r_populate"]]

\* res.status(201).json({_id: populatedReply._id, ...})
replyToTweet_respond(q) ==
  IF q.found THEN Answer(q, 201, "created") ELSE Answer(q, 500, "TypeError")

\* Tweet.findById(replyTweet._id).populate('author')
replyToTweet_populate(d, q) ==
  LET p == [q EXCEPT !.found = Exists(d, q.newId)] IN
    [d |-> d,
     q |-> IF q.owner # q.actor THEN [p EXCEPT !.pc = "r_notify"]
           ELSE replyToTweet_respond(p)]

\* Notification.create({type: 'reply', tweet: parentTweet._id})
replyToTweet_notify(d, q) ==
  [d |-> NotificationCreate(d, q.owner, q.actor, "reply", q.target),
   q |-> replyToTweet_respond(q)]

\* ------------------------------------------------------------ deleteTweet
\* the awaited calls of deleteTweet in their order; after call number  k
\* the next one whose condition holds for the tweet that was read
deleteTweet_after(q, k) ==
  IF k < 1 /\ q.doc.imageUrl # 0 THEN [q EXCEPT !.pc = "d_destroy"]
  ELSE IF k < 2 /\ q.doc.isReply /\ q.doc.parentTweet # 0
  THEN [q EXCEPT !.pc = "d_pullReply"]
  ELSE IF k < 3 /\ q.doc.isRetweet /\ q.doc.originalTweet # 0
  THEN [q EXCEPT !.pc = "d_pullRetweet"]
  ELSE [q EXCEPT !.pc = "d_notifications"]

\* Tweet.findById(id) and the check that the actor is the author
deleteTweet_find_anyone(d, q) ==
  IF ~Exists(d, q.target)
  THEN [d |-> d, q |-> Answer(q, 404, "Tweet not found")]
  ELSE [d |-> d, q |-> deleteTweet_after([q EXCEPT !.doc = d.tweets[q.target]], 0)]

deleteTweet_find(d, q) ==
  IF ~Exists(d, q.target)
  THEN [d |-> d, q |-> Answer(q, 404, "Tweet not found")]
  ELSE IF d.tweets[q.target].author # q.actor
  THEN [d |-> d, q |-> Answer(q, 403, "Not authorized to delete this tweet")]
  ELSE [d |-> d, q |-> deleteTweet_after([q EXCEPT !.doc = d.tweets[q.target]], 0)]

\* cloudinary.uploader.destroy(publicId)
deleteTweet_destroy(d, q) ==
  [d |-> [d EXCEPT !.images = @ \ {q.doc.imageUrl}],
   q |-> deleteTweet_after(q, 1)]

\* Tweet.findByIdAndUpdate(parentTweet, {$pull: {replies: tweet._id}})
deleteTweet_pullReply_keep(d, q) ==
  [d |-> d, q |-> deleteTweet_after(q, 2)]

deleteTweet_pullReply(d, q) ==
  [d |-> IF Exists(d, q.doc.parentTweet)
         THEN [d EXCEPT !.tweets[q.doc.parentTweet].replies = Without(@, q.target)]
         ELSE d,
   q |-> deleteTweet_after(q, 2)]

\* Tweet.findByIdAndUpdate(originalTweet, {$pull: {retweets: req.user._id}})
deleteTweet_pullRetweet(d, q) ==
  [d |-> IF Exists(d, q.doc.originalTweet)
         THEN [d EXCEPT !.tweets[q.doc.originalTweet].retweets = Without(@, q.actor)]
         ELSE d,
   q |-> deleteTweet_after(q, 3)]

\* Notification.deleteMany({tweet: tweet._id})
deleteTweet_notifications(d, q) ==
  [d |-> [d EXCEPT !.notifications =
            [i \in DOMAIN @ |-> IF @[i].tweet = q.target THEN Gone ELSE @[i]]],
   q |-> [q EXCEPT !.pc = "d_remove"]]

\* tweet.remove() and the answer;  flag  tells that the tweet was a reply
deleteTweet_remove(d, q) ==
  [d |-> IF Exists(d, q.target) THEN TweetDelete(d, q.target) ELSE d,
   q |-> [Answer(q, 200, "Tweet deleted successfully") EXCEPT !.flag = q.doc.isReply]]

\* ------------------------------------------------------------- markAsRead
\* the notification with id  n  is in the collection
HasNotification(d, n) == n \in DOMAIN d.notifications /\ d.notifications[n] # Gone

\* Notification.findById(id) and the check that the actor is the recipient;
\* already  keeps the read flag of the document that was read
markAsRead_find(d, q) ==
  IF ~HasNotification(d, q.target)
  THEN [d |-> d, q |-> Answer(q, 404, "Notification not found")]
  ELSE IF d.notifications[q.target].recipient # q.actor
  THEN [d |-> d,
        q |-> Answer(q, 403, "Not authorized to mark this notification as read")]
  ELSE [d |-> d, q |-> [q EXCEPT !.pc = "m_save",
                                 !.already = d.notifications[q.target].read]]

\* notification.read = true; notification.save(): nothing is sent when the
\* flag was set already, and the update of a deleted document fails
markAsRead_save(d, q) ==
  IF q.already
  THEN [d |-> d, q |-> Answer(q, 200, "Notification marked as read")]
  ELSE IF ~HasNotification(d, q.target)
  THEN [d |-> d, q |-> Answer(q, 500, "DocumentNotFoundError")]
  ELSE [d |-> [d EXCEPT !.notifications[q.target].read = TRUE],
        q |-> Answer(q, 200, "Notification marked as read")]

\* ----------------------------------------------------------- markAllAsRead
\* Notification.updateMany({recipient, read: false}, {read: true})
markAllAsRead_remove(d, q) ==
  [d |-> [d EXCEPT !.notifications =
            [i \in DOMAIN @ |-> IF @[i].recipient = q.actor THEN Gone ELSE @[i]]],
   q |-> Answer(q, 200, "All notifications marked as read")]

markAllAsRead(d, q) ==
  [d |-> [d EXCEPT !.notifications =
            [i \in DOMAIN @ |->
               IF @[i].recipient = q.actor /\ ~@[i].read
               THEN [@[i] EXCEPT !.read = TRUE] ELSE @[i]]],
   q |-> Answer(q, 200, "All notifications marked as read")]

\* ------------------------------------------------- a side effect that fails
\* the awaited call the request stands at rejects
Rejects(q) ==
  \/ q.fault = "notification" /\ q.pc \in {"f_notify", "l_notify", "rt_notify",
                                           "r_notify", "c_notify"}
  \/ q.fault = "trending" /\ q.pc \in {"c_trending", "c_upsert"}
  \/ q.fault = "image" /\ q.pc = "d_destroy"

\* catch (error) { next(error) } and the default branch of errorHandler
handlerCatch(d, q) == [d |-> d, q |-> Answer(q, 500, "Server Error")]

\* ------------------------------------------------------------ getTimeline
\* sort({createdAt: -1}) of the documents with the ids  S : a document
\* created later has the larger id
RECURSIVE NewestFirst(_)
NewestFirst(S) ==
  IF S = {} THEN <<>>
  ELSE LET m == CHOOSE x \in S : \A y \in S : y <= x
       IN <<m>> \o NewestFirst(S \ {m})

\* skip(n).limit(k) on a sorted result
SkipLimit(all, n, k) ==
  IF n >= Len(all) THEN <<>>
  ELSE SubSeq(all, n + 1, IF n + k < Len(all) THEN n + k ELSE Len(all))

\* the fields added for the frontend
TweetWithMeta(d, t, viewer) ==
  [text |-> d.tweets[t].text,
   author |-> d.tweets[t].author,
   imageUrl |-> d.tweets[t].imageUrl,
   likes |-> Len(d.tweets[t].likes),
   retweets |-> Len(d.tweets[t].retweets),
   replies |-> Len(d.tweets[t].replies),
   isRetweet |-> d.tweets[t].isRetweet,
   originalTweet |-> d.tweets[t].originalTweet,
   id |-> t,
   isLiked |-> Includes(d.tweets[t].likes, viewer),
   isRetweeted |-> Includes(d.tweets[t].retweets, viewer)]

\* User.findById(req.user._id) and [...user.following, req.user._id]
getTimeline_user_withoutSelf(d, q) ==
  [d |-> d,
   q |-> [q EXCEPT !.pc = "t_find", !.arr = d.users[q.actor].following]]

getTimeline_user(d, q) ==
  [d |-> d,
   q |-> [q EXCEPT !.pc = "t_find",
                   !.arr = Append(d.users[q.actor].following, q.actor)]]

\* Tweet.find({$or: [author in following, retweets in following]}), sorted,
\* skipped and limited, then mapped and answered
getTimeline_find(d, q) ==
  LET hits == {t \in DOMAIN d.tweets :
                 \/ Includes(q.arr, d.tweets[t].author)
                 \/ \E i \in DOMAIN d.tweets[t].retweets :
                      Includes(q.arr, d.tweets[t].retweets[i])}
      shown == SkipLimit(NewestFirst(hits), (q.page - 1) * q.limit, q.limit)
  IN [d |-> d,
      q |-> [Answer(q, 200, "timeline") EXCEPT
               !.body = [i \in DOMAIN shown |-> TweetWithMeta(d, shown[i], q.actor)]]]

\* ---------------------------------------------------------------- realtime
\* io.to(userId.toString()).emit('notification', notification)
emitNotification(d, userId, notification) ==
  [d EXCEPT !.emitted = Append(@, [room |-> userId, event |-> "notification",
                                    payload |-> notification])]

\* followers.forEach(followerId => io.to(followerId).emit('new_tweet', tweet))
RECURSIVE emitTweetToFollowers(_, _, _)
emitTweetToFollowers(d, followers, tweet) ==
  IF followers = <<>> THEN d
  ELSE emitTweetToFollowers(
         [d EXCEPT !.emitted = Append(@, [room |-> Head(followers),
                                          event |-> "new_tweet",
                                          payload |-> tweet])],
         Tail(followers), tweet)

\* the connections a client may hold open at once
MaxConn == 2
Conns == 1..MaxConn

\* socket.handshake.auth.token: absent, not verifiable under JWT_SECRET
\* (forged, malformed or expired), or signed for an id; the id after the
\* last account is an id no account has
Tokens == {[id |-> 0, kind |-> "absent"], [id |-> 0, kind |-> "forged"]}
            \cup {[id |-> i, kind |-> "signed"] : i \in 1..(NumUsers + 1)}

\* a connection that is not open
NoSocket == [pc |-> "closed", token |-> [id |-> 0, kind |-> "absent"],
             decoded |-> 0, user |-> 0, rooms |-> {}, err |-> "none"]

\* a client opens a connection with a token in its handshake
NewSocket(token) == [NoSocket EXCEPT !.token = token, !.pc = "handshake"]

\* next(new Error(message)): the connection is refused
socketRefuse(k, message) == [k EXCEPT !.pc = "rejected", !.err = message]

\* io.use, up to the await: the token is read and verified
ioUse_verify(k) ==
  IF k.token.kind = "absent" THEN socketRefuse(k, "Authentication error")
  ELSE IF k.token.kind # "signed" THEN socketRefuse(k, "Authentication error")
  ELSE [k EXCEPT !.pc = "lookup", !.decoded = k.token.id]

\* io.use, after User.findById(decoded.id)
ioUse_find_anyId(d, k) ==
  [k EXCEPT !.pc = "accepted", !.user = k.decoded]

ioUse_find(d, k) ==
  IF k.decoded \notin DOMAIN d.users THEN socketRefuse(k, "User not found")
  ELSE [k EXCEPT !.pc = "accepted", !.user = k.decoded]

\* io.on('connection'): socket.join(socket.user._id.toString())
ioConnection(k) == [k EXCEPT !.pc = "connected", !.rooms = @ \cup {k.user}]

\* --------------------------------------------------------------- dispatch
\* the router: the handler's first step by operation, then by position
Step(d, q) ==
  IF Rejects(q) THEN handlerCatch(d, q) ELSE
  CASE q.pc = "begin" /\ q.op = "follow" -> followUser_find(d, q)
    [] q.pc = "f_saveTarget" -> followUser_saveTarget(d, q)
    [] q.pc = "f_saveSelf" -> followUser_saveSelf(d, q)
    [] q.pc = "f_notify" -> followUser_notify(d, q)
    [] q.pc = "begin" /\ q.op = "unfollow" -> unfollowUser_find(d, q)
    [] q.pc = "u_saveTarget" -> unfollowUser_saveTarget(d, q)
    [] q.pc = "u_findSelf" -> unfollowUser_findSelf(d, q)
    [] q.pc = "u_saveSelf" -> unfollowUser_saveSelf(d, q)
    [] q.pc = "begin" /\ q.op = "create" -> createTweet_create(d, q)
    [] q.pc = "c_populate" -> createTweet_populate(d, q)
    [] q.pc = "c_trending" -> createTweet_trending(d, q)
    [] q.pc = "c_upsert" -> createTweet_upsert(d, q)
    [] q.pc = "c_mentions" -> createTweet_mentions(d, q)
    [] q.pc = "c_notify" -> createTweet_notify(d, q)
    [] q.pc = "begin" /\ q.op = "like" -> likeTweet_find(d, q)
    [] q.pc = "l_notify" -> likeTweet_notify(d, q)
    [] q.pc = "l_save" -> likeTweet_save(d, q)
    [] q.pc = "begin" /\ q.op = "retweet" -> retweetTweet_find(d, q)
    [] q.pc = "rt_deleteShell" -> retweetTweet_deleteShell(d, q)
    [] q.pc = "rt_createShell" -> retweetTweet_createShell(d, q)
    [] q.pc = "rt_notify" -> retweetTweet_notify(d, q)
    [] q.pc = "rt_save" -> retweetTweet_save(d, q)
    [] q.pc = "begin" /\ q.op = "reply" -> replyToTweet_find(d, q)
    [] q.pc = "r_create" -> replyToTweet_create(d, q)
    [] q.pc = "r_save" -> replyToTweet_save(d, q)
    [] q.pc = "r_populate" -> replyToTweet_populate(d, q)
    [] q.pc = "r_notify" -> replyToTweet_notify(d, q)
    [] q.pc = "begin" /\ q.op = "delete" -> deleteTweet_find(d, q)
    [] q.pc = "d_destroy" -> deleteTweet_destroy(d, q)
    [] q.pc = "d_pullReply" -> deleteTweet_pullReply(d, q)
    [] q.pc = "d_pullRetweet" -> deleteTweet_pullRetweet(d, q)
    [] q.pc = "d_notifications" -> deleteTweet_notifications(d, q)
    [] q.pc = "d_remove" -> deleteTweet_remove(d, q)
    [] q.pc = "begin" /\ q.op = "read" -> markAsRead_find(d, q)
    [] q.pc = "m_save" -> markAsRead_save(d, q)
    [] q.pc = "begin" /\ q.op = "readAll" -> markAllAsRead(d, q)
    [] q.pc = "begin" /\ q.op = "timeline" -> getTimeline_user(d, q)
    [] q.pc = "t_find" -> getTimeline_find(d, q)

\* one request run from  d  until it has answered, nothing in between
RECURSIVE Run(_, _)
Run(d, q) == IF q.pc = "done" THEN [d |-> d, q |-> q]
             ELSE LET o == Step(d, q) IN Run(o.d, o.q)

\* ---------------------------------------------------------- authController
\* jwt.sign({ id }, JWT_SECRET, { expiresIn }): the token is a function of the
\* id, of the second it is signed in (iat) and of its lifetime, so two tokens
\* signed for one account with one lifetime in one second are the same token
NoToken == [id |-> 0, iat |-> 0, days |-> 0, signed |-> FALSE]

generateToken(id, t) == [id |-> id, iat |-> t, days |-> 30, signed |-> TRUE]

generateRefreshToken(id, t) == [id |-> id, iat |-> t, days |-> 60, signed |-> TRUE]

\* jwt.verify(token, JWT_SECRET) at second  t : signed with the secret and not
\* expired
jwtVerify(tok, t) == tok.signed /\ t < tok.iat + tok.days * 86400

\* the stored refresh token of every account, the clock, and as history the
\* stored tokens that a later save has replaced or cleared
Session == [refreshToken |-> refreshToken, now |-> now, replaced |-> replaced]

\* user.refreshToken = tok; await user.save()
StoreToken(a, u, tok) ==
  [a EXCEPT !.refreshToken[u] = tok,
            !.replaced = IF a.refreshToken[u] = NoToken THEN @
                         ELSE @ \cup {a.refreshToken[u]}]

\* User.findOne({ email }), matchPassword, and the two tokens;  flag  says
\* whether the password matches
loginUser_find(a, q) ==
  IF ~q.flag THEN [a |-> a, q |-> Answer(q, 401, "Invalid email or password")]
  ELSE [a |-> a, q |-> [q EXCEPT !.pc = "a_loginSave",
                                 !.body = generateRefreshToken(q.actor, a.now)]]

loginUser_save(a, q) ==
  [a |-> StoreToken(a, q.actor, q.body), q |-> Answer(q, 200, "")]

\* the token of the body, jwt.verify, User.findById(decoded.id) and the
\* comparison with the stored token, then the two new tokens
refreshUserToken_find(a, q) ==
  IF q.body = NoToken
  THEN [a |-> a, q |-> Answer(q, 401, "Refresh token is required")]
  ELSE IF ~jwtVerify(q.body, a.now)
  THEN [a |-> a, q |-> Answer(q, 401, "Invalid or expired refresh token")]
  ELSE IF q.body.id \notin DOMAIN a.refreshToken
            \/ a.refreshToken[q.body.id] # q.body
  THEN [a |-> a, q |-> Answer(q, 401, "Invalid refresh token")]
  ELSE [a |-> a, q |-> [q EXCEPT !.pc = "a_refreshSave", !.owner = q.body.id,
                                 !.body = generateRefreshToken(q.body.id, a.now)]]

refreshUserToken_save(a, q) ==
  [a |-> StoreToken(a, q.owner, q.body), q |-> Answer(q, 200, "")]

\* authenticateToken and User.findById(req.user._id); actor 0 sends no token
logoutUser_find(a, q) ==
  IF q.actor = 0 THEN [a |-> a, q |-> Answer(q, 401, "Not authorized, no token")]
  ELSE [a |-> a, q |-> [q EXCEPT !.pc = "a_logoutSave"]]

\* user.refreshToken = null; await user.save()
logoutUser_save(a, q) ==
  [a |-> StoreToken(a, q.actor, NoToken),
   q |-> Answer(q, 200, "Logged out successfully")]

\* the auth router
AuthStep(a, q) ==
  CASE q.pc = "begin" /\ q.op = "login" -> loginUser_find(a, q)
    [] q.pc = "a_loginSave" -> loginUser_save(a, q)
    [] q.pc = "begin" /\ q.op = "refresh" -> refreshUserToken_find(a, q)
    [] q.pc = "a_refreshSave" -> refreshUserToken_save(a, q)
    [] q.pc = "begin" /\ q.op = "logout" -> logoutUser_find(a, q)
    [] q.pc = "a_logoutSave" -> logoutUser_save(a, q)

\* one auth request run from  a  until it has answered, nothing in between
RECURSIVE AuthRun(_, _)
AuthRun(a, q) == IF q.pc = "done" THEN [a |-> a, q |-> q]
                 ELSE LET o == AuthStep(a, q) IN AuthRun(o.a, o.q)

\* ---------------------------------------------------------------- actions
Init ==
  /\ users = [u \in Users |-> [v |-> 0, followers |-> <<>>, following |-> <<>>]]
  /\ tweets = <<>>
  /\ notifications = <<>>
  /\ trending = <<>>
  /\ images = {}
  /\ nextId = 1
  /\ reqs = [s \in Slots |-> Idle]
  /\ log = <<>>
  /\ nops = 0
  /\ created = <<>>
  /\ emitted = <<>>
  /\ sockets = [c \in Conns |-> NoSocket]
  /\ refreshToken = [u \in Users |-> generateRefreshToken(u, 0)]
  /\ now = 0
  /\ replaced = {}

\* the answers of the last LogLen requests, oldest first
Logged(q) == [op |-> q.op, actor |-> q.actor, target |-> q.target,
              status |-> q.status, flag |-> q.flag, count |-> q.count]

PushLog(l, e) == IF Len(l) < LogLen THEN Append(l, e) ELSE Append(Tail(l), e)

\* a request arrives and is given the first free slot
Arrive(q) ==
  /\ nops < MaxOps
  /\ \E s \in Slots :
       /\ reqs[s].pc = "idle"
       /\ \A t \in Slots : t < s => reqs[t].pc # "idle"
       /\ reqs' = [reqs EXCEPT ![s] = q]
  /\ nops' = nops + 1
  /\ UNCHANGED <<users, tweets, notifications, trending, images, nextId, log,
                 created, emitted, sockets, refreshToken, now, replaced>>

\* the request in slot  s  takes the step  o
Commit(s, o) ==
  /\ users' = o.d.users
  /\ tweets' = o.d.tweets
  /\ notifications' = o.d.notifications
  /\ trending' = o.d.trending
  /\ images' = o.d.images
  /\ nextId' = o.d.nextId
  /\ created' = o.d.created
  /\ emitted' = o.d.emitted
  /\ sockets' = sockets
  /\ UNCHANGED <<refreshToken, now, replaced>>
  /\ IF o.q.pc = "done"
     THEN reqs' = [reqs EXCEPT ![s] = Idle] /\ log' = PushLog(log, Logged(o.q))
     ELSE reqs' = [reqs EXCEPT ![s] = o.q] /\ log' = log
  /\ nops' = nops

\* the request in slot  s  stands at a call that does not reject
At(s, op, pc) == reqs[s].op = op /\ reqs[s].pc = pc /\ ~Rejects(reqs[s])

StartFollow == \E a \in Users, b \in Users : Arrive(NewReq("follow", a, b, <<>>, FALSE))
StartUnfollow == \E a \in Users, b \in Users : Arrive(NewReq("unfollow", a, b, <<>>, FALSE))

FollowFind(s) == At(s, "follow", "begin") /\ Commit(s, followUser_find(DB, reqs[s]))
FollowSaveTarget(s) == At(s, "follow", "f_saveTarget") /\ Commit(s, followUser_saveTarget(DB, reqs[s]))
FollowSaveSelf(s) == At(s, "follow", "f_saveSelf") /\ Commit(s, followUser_saveSelf(DB, reqs[s]))
FollowNotify(s) == At(s, "follow", "f_notify") /\ Commit(s, followUser_notify(DB, reqs[s]))

UnfollowFind(s) == At(s, "unfollow", "begin") /\ Commit(s, unfollowUser_find(DB, reqs[s]))
UnfollowSaveTarget(s) == At(s, "unfollow", "u_saveTarget") /\ Commit(s, unfollowUser_saveTarget(DB, reqs[s]))
UnfollowFindSelf(s) == At(s, "unfollow", "u_findSelf") /\ Commit(s, unfollowUser_findSelf(DB, reqs[s]))
UnfollowSaveSelf(s) == At(s, "unfollow", "u_saveSelf") /\ Commit(s, unfollowUser_saveSelf(DB, reqs[s]))

NextFollow ==
  \/ StartFollow
  \/ StartUnfollow
  \/ \E s \in Slots : FollowFind(s)
  \/ \E s \in Slots : FollowSaveTarget(s)
  \/ \E s \in Slots : FollowSaveSelf(s)
  \/ \E s \in Slots : FollowNotify(s)
  \/ \E s \in Slots : UnfollowFind(s)
  \/ \E s \in Slots : UnfollowSaveTarget(s)
  \/ \E s \in Slots : UnfollowFindSelf(s)
  \/ \E s \in Slots : UnfollowSaveSelf(s)

\* follow and unfollow requests, interleaved at their awaits
SpecFollow == Init /\ [][NextFollow]_vars

\* ------------------------------------------------ likes, retweets, replies
\* the ids a request may name: those handed out so far
Ids == 1..(nextId - 1)

\* the text of the posts and replies of these requests
Plain == <<"a">>

StartPlainTweet == \E a \in Users : Arrive(NewReq("create", a, 0, Plain, FALSE))
StartLike == \E a \in Users, t \in Ids : Arrive(NewReq("like", a, t, <<>>, FALSE))
StartRetweet == \E a \in Users, t \in Ids : Arrive(NewReq("retweet", a, t, <<>>, FALSE))
StartReply == \E a \in Users, t \in Ids : Arrive(NewReq("reply", a, t, Plain, FALSE))

CreateTweet(s) == At(s, "create", "begin") /\ Commit(s, createTweet_create(DB, reqs[s]))
CreatePopulate(s) == At(s, "create", "c_populate") /\ Commit(s, createTweet_populate(DB, reqs[s]))
CreateTrending(s) == At(s, "create", "c_trending") /\ Commit(s, createTweet_trending(DB, reqs[s]))
CreateUpsert(s) == At(s, "create", "c_upsert") /\ Commit(s, createTweet_upsert(DB, reqs[s]))
CreateMentions(s) == At(s, "create", "c_mentions") /\ Commit(s, createTweet_mentions(DB, reqs[s]))
CreateNotify(s) == At(s, "create", "c_notify") /\ Commit(s, createTweet_notify(DB, reqs[s]))

LikeFind(s) == At(s, "like", "begin") /\ Commit(s, likeTweet_find(DB, reqs[s]))
LikeNotify(s) == At(s, "like", "l_notify") /\ Commit(s, likeTweet_notify(DB, reqs[s]))
LikeSave(s) == At(s, "like", "l_save") /\ Commit(s, likeTweet_save(DB, reqs[s]))

RetweetFind(s) == At(s, "retweet", "begin") /\ Commit(s, retweetTweet_find(DB, reqs[s]))
RetweetDeleteShell(s) == At(s, "retweet", "rt_deleteShell") /\ Commit(s, retweetTweet_deleteShell(DB, reqs[s]))
RetweetCreateShell(s) == At(s, "retweet", "rt_createShell") /\ Commit(s, retweetTweet_createShell(DB, reqs[s]))
RetweetNotify(s) == At(s, "retweet", "rt_notify") /\ Commit(s, retweetTweet_notify(DB, reqs[s]))
RetweetSave(s) == At(s, "retweet", "rt_save") /\ Commit(s, retweetTweet_save(DB, reqs[s]))

ReplyFind(s) == At(s, "reply", "begin") /\ Commit(s, replyToTweet_find(DB, reqs[s]))
ReplyCreate(s) == At(s, "reply", "r_create") /\ Commit(s, replyToTweet_create(DB, reqs[s]))
ReplySave(s) == At(s, "reply", "r_save") /\ Commit(s, replyToTweet_save(DB, reqs[s]))
ReplyPopulate(s) == At(s, "reply", "r_populate") /\ Commit(s, replyToTweet_populate(DB, reqs[s]))
ReplyNotify(s) == At(s, "reply", "r_notify") /\ Commit(s, replyToTweet_notify(DB, reqs[s]))

NextEngage ==
  \/ StartPlainTweet
  \/ StartLike
  \/ StartRetweet
  \/ StartReply
  \/ \E s \in Slots : CreateTweet(s)
  \/ \E s \in Slots : CreatePopulate(s)
  \/ \E s \in Slots : LikeFind(s)
  \/ \E s \in Slots : LikeNotify(s)
  \/ \E s \in Slots : LikeSave(s)
  \/ \E s \in Slots : RetweetFind(s)
  \/ \E s \in Slots : RetweetDeleteShell(s)
  \/ \E s \in Slots : RetweetCreateShell(s)
  \/ \E s \in Slots : RetweetNotify(s)
  \/ \E s \in Slots : RetweetSave(s)
  \/ \E s \in Slots : ReplyFind(s)
  \/ \E s \in Slots : ReplyCreate(s)
  \/ \E s \in Slots : ReplySave(s)
  \/ \E s \in Slots : ReplyPopulate(s)
  \/ \E s \in Slots : ReplyNotify(s)

\* posts without tags, and likes, retweets and replies on them, interleaved
SpecEngage == Init /\ [][NextEngage]_vars

\* ------------------------------------------------------- posts with tags
\* the posts submitted: repeated and mixed-case tags, two tags, the handle
\* of account 2 and a handle of no account beside a tag, an image without
\* text, and nothing at all
Posts == {[text |-> <<"#", "a">>, file |-> FALSE],
          [text |-> <<"#", "a", "#", "A">>, file |-> FALSE],
          [text |-> <<"#", "b", " ", "#", "a">>, file |-> FALSE],
          [text |-> <<"@", "b", "@", "A", "#", "A">>, file |-> FALSE],
          [text |-> <<>>, file |-> TRUE],
          [text |-> <<>>, file |-> FALSE]}

StartTweet == \E a \in Users, p \in Posts : Arrive(NewReq("create", a, 0, p.text, p.file))

NextPost ==
  \/ StartTweet
  \/ \E s \in Slots : CreateTweet(s)
  \/ \E s \in Slots : CreatePopulate(s)
  \/ \E s \in Slots : CreateTrending(s)
  \/ \E s \in Slots : CreateUpsert(s)
  \/ \E s \in Slots : CreateMentions(s)
  \/ \E s \in Slots : CreateNotify(s)

\* posts, interleaved at their awaits
SpecPost == Init /\ [][NextPost]_vars

\* ---------------------------------------------- replies, likes and deletes
\* the database with nothing in it
Empty == [users |-> [u \in Users |-> [v |-> 0, followers |-> <<>>, following |-> <<>>]],
          tweets |-> <<>>, notifications |-> <<>>, trending |-> <<>>,
          images |-> {}, nextId |-> 1, created |-> <<>>, emitted |-> <<>>]

\* account 1 has posted "#a" with an image, and the request has answered;
\* the budget counts the requests that follow
InitThread ==
  LET first == Run(Empty, NewReq("create", 1, 0, <<"#", "a">>, TRUE)) IN
    /\ users = first.d.users
    /\ tweets = first.d.tweets
    /\ notifications = first.d.notifications
    /\ trending = first.d.trending
    /\ images = first.d.images
    /\ nextId = first.d.nextId
    /\ created = first.d.created
    /\ emitted = first.d.emitted
    /\ sockets = [c \in Conns |-> NoSocket]
    /\ refreshToken = [u \in Users |-> generateRefreshToken(u, 0)]
    /\ now = 0
    /\ replaced = {}
    /\ reqs = [s \in Slots |-> Idle]
    /\ log = <<Logged(first.q)>>
    /\ nops = 0

\* the texts of the replies: without and with a tag
Replies == {<<"a">>, <<"#", "a">>}

StartReplyText == \E a \in Users, t \in Ids, r \in Replies : Arrive(NewReq("reply", a, t, r, FALSE))
StartDelete == \E a \in Users, t \in Ids : Arrive(NewReq("delete", a, t, <<>>, FALSE))

DeleteFind(s) == At(s, "delete", "begin") /\ Commit(s, deleteTweet_find(DB, reqs[s]))
DeleteDestroy(s) == At(s, "delete", "d_destroy") /\ Commit(s, deleteTweet_destroy(DB, reqs[s]))
DeletePullReply(s) == At(s, "delete", "d_pullReply") /\ Commit(s, deleteTweet_pullReply(DB, reqs[s]))
DeletePullRetweet(s) == At(s, "delete", "d_pullRetweet") /\ Commit(s, deleteTweet_pullRetweet(DB, reqs[s]))
DeleteNotifications(s) == At(s, "delete", "d_notifications") /\ Commit(s, deleteTweet_notifications(DB, reqs[s]))
DeleteRemove(s) == At(s, "delete", "d_remove") /\ Commit(s, deleteTweet_remove(DB, reqs[s]))

NextThread ==
  \/ StartReplyText
  \/ StartLike
  \/ StartDelete
  \/ \E s \in Slots : ReplyFind(s)
  \/ \E s \in Slots : ReplyCreate(s)
  \/ \E s \in Slots : ReplySave(s)
  \/ \E s \in Slots : ReplyPopulate(s)
  \/ \E s \in Slots : ReplyNotify(s)
  \/ \E s \in Slots : LikeFind(s)
  \/ \E s \in Slots : LikeNotify(s)
  \/ \E s \in Slots : LikeSave(s)
  \/ \E s \in Slots : DeleteFind(s)
  \/ \E s \in Slots : DeleteDestroy(s)
  \/ \E s \in Slots : DeletePullReply(s)
  \/ \E s \in Slots : DeleteNotifications(s)
  \/ \E s \in Slots : DeleteRemove(s)

\* replies, likes and deletes on a thread that starts with one post,
\* interleaved at their awaits
SpecThread == InitThread /\ [][NextThread]_vars

\* --------------------------------------------------- side effects that fail
\* a request during which the named side effect rejects
Failing(q, fault) == [q EXCEPT !.fault = fault]

StartFailingLike == \E a \in Users, t \in Ids : Arrive(Failing(NewReq("like", a, t, <<>>, FALSE), "notification"))
StartFailingRetweet == \E a \in Users, t \in Ids : Arrive(Failing(NewReq("retweet", a, t, <<>>, FALSE), "notification"))
StartFailingReply == \E a \in Users, t \in Ids : Arrive(Failing(NewReq("reply", a, t, Plain, FALSE), "notification"))
StartFailingFollow == \E a \in Users, b \in Users : Arrive(Failing(NewReq("follow", a, b, <<>>, FALSE), "notification"))
StartFailingDelete == \E a \in Users, t \in Ids : Arrive(Failing(NewReq("delete", a, t, <<>>, FALSE), "image"))
StartFailingTweet ==
  \E a \in Users, f \in {"trending", "notification"} :
    Arrive(Failing(NewReq("create", a, 0, <<"@", "b", "#", "b">>, FALSE), f))

\* the awaited call rejects: the handler's catch passes the error on
Reject(s) == Rejects(reqs[s]) /\ Commit(s, handlerCatch(DB, reqs[s]))

NextFault ==
  \/ StartFailingLike
  \/ StartFailingRetweet
  \/ StartFailingReply
  \/ StartFailingFollow
  \/ StartFailingDelete
  \/ StartFailingTweet
  \/ \E s \in Slots : Reject(s)
  \/ \E s \in Slots : LikeFind(s)
  \/ \E s \in Slots : LikeSave(s)
  \/ \E s \in Slots : RetweetFind(s)
  \/ \E s \in Slots : RetweetDeleteShell(s)
  \/ \E s \in Slots : RetweetCreateShell(s)
  \/ \E s \in Slots : RetweetSave(s)
  \/ \E s \in Slots : ReplyFind(s)
  \/ \E s \in Slots : ReplyCreate(s)
  \/ \E s \in Slots : ReplySave(s)
  \/ \E s \in Slots : ReplyPopulate(s)
  \/ \E s \in Slots : FollowFind(s)
  \/ \E s \in Slots : FollowSaveTarget(s)
  \/ \E s \in Slots : FollowSaveSelf(s)
  \/ \E s \in Slots : DeleteFind(s)
  \/ \E s \in Slots : DeletePullReply(s)
  \/ \E s \in Slots : DeletePullRetweet(s)
  \/ \E s \in Slots : DeleteNotifications(s)
  \/ \E s \in Slots : DeleteRemove(s)
  \/ \E s \in Slots : CreateTweet(s)
  \/ \E s \in Slots : CreatePopulate(s)
  \/ \E s \in Slots : CreateTrending(s)
  \/ \E s \in Slots : CreateUpsert(s)
  \/ \E s \in Slots : CreateMentions(s)

\* requests during which a side effect rejects, on a thread that starts
\* with one post, interleaved at their awaits
SpecFault == InitThread /\ [][NextFault]_vars

\* --------------------------------------------------- realtime connections
SocketStep(c, k) ==
  /\ sockets' = [sockets EXCEPT ![c] = k]
  /\ UNCHANGED <<users, tweets, notifications, trending, images, nextId, reqs,
                 log, nops, created, emitted, refreshToken, now, replaced>>

Connect(c) == \E t \in Tokens : sockets[c].pc = "closed" /\ SocketStep(c, NewSocket(t))
SocketVerify(c) == sockets[c].pc = "handshake" /\ SocketStep(c, ioUse_verify(sockets[c]))
SocketFind(c) == sockets[c].pc = "lookup" /\ SocketStep(c, ioUse_find(DB, sockets[c]))
SocketConnection(c) == sockets[c].pc = "accepted" /\ SocketStep(c, ioConnection(sockets[c]))
\* the client goes away, or the refused connection is closed
Disconnect(c) == sockets[c].pc \in {"connected", "rejected"} /\ SocketStep(c, NoSocket)

NextSocket ==
  \/ \E c \in Conns : Connect(c)
  \/ \E c \in Conns : SocketVerify(c)
  \/ \E c \in Conns : SocketFind(c)
  \/ \E c \in Conns : SocketConnection(c)
  \/ \E c \in Conns : Disconnect(c)

SpecSocket == Init /\ [][NextSocket]_vars

\* ------------------------------------------------------- the home timeline
\* the pages and page sizes requested
MaxPage == 2
MaxLimit == 2

Timeline(a, page, limit) ==
  [NewReq("timeline", a, 0, <<>>, FALSE) EXCEPT !.page = page, !.limit = limit]

StartTimeline ==
  \E a \in Users, p \in 1..MaxPage, l \in 1..MaxLimit : Arrive(Timeline(a, p, l))

TimelineUser(s) == At(s, "timeline", "begin") /\ Commit(s, getTimeline_user(DB, reqs[s]))
TimelineFind(s) == At(s, "timeline", "t_find") /\ Commit(s, getTimeline_find(DB, reqs[s]))

NextTimeline ==
  \/ StartFollow
  \/ StartPlainTweet
  \/ StartLike
  \/ StartRetweet
  \/ StartTimeline
  \/ \E s \in Slots : FollowFind(s)
  \/ \E s \in Slots : FollowSaveTarget(s)
  \/ \E s \in Slots : FollowSaveSelf(s)
  \/ \E s \in Slots : FollowNotify(s)
  \/ \E s \in Slots : CreateTweet(s)
  \/ \E s \in Slots : CreatePopulate(s)
  \/ \E s \in Slots : LikeFind(s)
  \/ \E s \in Slots : LikeNotify(s)
  \/ \E s \in Slots : LikeSave(s)
  \/ \E s \in Slots : RetweetFind(s)
  \/ \E s \in Slots : RetweetDeleteShell(s)
  \/ \E s \in Slots : RetweetCreateShell(s)
  \/ \E s \in Slots : RetweetNotify(s)
  \/ \E s \in Slots : RetweetSave(s)
  \/ \E s \in Slots : TimelineUser(s)
  \/ \E s \in Slots : TimelineFind(s)

\* follows, posts, likes, retweets and timeline requests, interleaved
SpecTimeline == Init /\ [][NextTimeline]_vars

\* ------------------------------------------- notifications read and deleted
StartRead ==
  \E a \in Users, n \in 1..(Len(notifications) + 1) :
    Arrive(NewReq("read", a, n, <<>>, FALSE))
StartReadAll == \E a \in Users : Arrive(NewReq("readAll", a, 0, <<>>, FALSE))

ReadFind(s) == At(s, "read", "begin") /\ Commit(s, markAsRead_find(DB, reqs[s]))
ReadSave(s) == At(s, "read", "m_save") /\ Commit(s, markAsRead_save(DB, reqs[s]))
ReadAll(s) == At(s, "readAll", "begin") /\ Commit(s, markAllAsRead(DB, reqs[s]))

NextNotify ==
  \/ StartLike
  \/ StartRetweet
  \/ StartDelete
  \/ StartRead
  \/ StartReadAll
  \/ \E s \in Slots : LikeFind(s)
  \/ \E s \in Slots : LikeNotify(s)
  \/ \E s \in Slots : LikeSave(s)
  \/ \E s \in Slots : RetweetFind(s)
  \/ \E s \in Slots : RetweetDeleteShell(s)
  \/ \E s \in Slots : RetweetCreateShell(s)
  \/ \E s \in Slots : RetweetNotify(s)
  \/ \E s \in Slots : RetweetSave(s)
  \/ \E s \in Slots : DeleteFind(s)
  \/ \E s \in Slots : DeleteDestroy(s)
  \/ \E s \in Slots : DeletePullRetweet(s)
  \/ \E s \in Slots : DeleteNotifications(s)
  \/ \E s \in Slots : DeleteRemove(s)
  \/ \E s \in Slots : ReadFind(s)
  \/ \E s \in Slots : ReadSave(s)
  \/ \E s \in Slots : ReadAll(s)

\* likes, retweets and deletes of a post and of its retweets, and the
\* notifications about them being read, interleaved
SpecNotify == InitThread /\ [][NextNotify]_vars

\* --------------------------------------- likes, retweets and replies together
NextFrame ==
  \/ StartLike
  \/ StartRetweet
  \/ StartReply
  \/ \E s \in Slots : LikeFind(s)
  \/ \E s \in Slots : LikeNotify(s)
  \/ \E s \in Slots : LikeSave(s)
  \/ \E s \in Slots : RetweetFind(s)
  \/ \E s \in Slots : RetweetDeleteShell(s)
  \/ \E s \in Slots : RetweetCreateShell(s)
  \/ \E s \in Slots : RetweetNotify(s)
  \/ \E s \in Slots : RetweetSave(s)
  \/ \E s \in Slots : ReplyFind(s)
  \/ \E s \in Slots : ReplyCreate(s)
  \/ \E s \in Slots : ReplySave(s)
  \/ \E s \in Slots : ReplyPopulate(s)
  \/ \E s \in Slots : ReplyNotify(s)

\* likes, retweets and replies on a post that exists, interleaved
SpecFrame == InitThread /\ [][NextFrame]_vars

\* ------------------------------------------------------ the express routers
\* A path below a mount point is the sequence of its segments; a segment of a
\* route's pattern that starts with a colon is a parameter.
\* the paths of the GET requests: the fixed paths, the id of a post that exists
\* ("2") and of none ("7"), the name of an account ("a"), and longer ones
Paths ==
  { <<>>, <<"search">>, <<"suggestions">>, <<"timeline">>, <<"trending">>,
    <<"2">>, <<"7">>, <<"a">>, <<"2", "replies">>, <<"search", "replies">>,
    <<"a", "tweets">>, <<"search", "tweets">>, <<"2", "like">> }

IsParam(seg) == seg \in {":id", ":username"}

Route(method, pattern, auth, handler) ==
  [status |-> 0, msg |-> "", method |-> method, pattern |-> pattern,
   auth |-> auth, handler |-> handler]

tweetRoutes ==
  << Route("POST", <<>>, TRUE, "createTweet"),
     Route("GET", <<"timeline">>, TRUE, "getTimeline"),
     Route("GET", <<"trending">>, FALSE, "getTrendingTweets"),
     Route("GET", <<":id">>, FALSE, "getTweetById"),
     Route("POST", <<":id", "like">>, TRUE, "likeTweet"),
     Route("POST", <<":id", "retweet">>, TRUE, "retweetTweet"),
     Route("POST", <<":id", "reply">>, TRUE, "replyToTweet"),
     Route("GET", <<":id", "replies">>, FALSE, "getTweetReplies"),
     Route("DELETE", <<":id">>, TRUE, "deleteTweet"),
     Route("GET", <<"search">>, FALSE, "searchTweets") >>

userRoutes ==
  << Route("GET", <<":username">>, FALSE, "getUserProfile"),
     Route("GET", <<":username", "tweets">>, FALSE, "getUserTweets"),
     Route("POST", <<":id", "follow">>, TRUE, "followUser"),
     Route("POST", <<":id", "unfollow">>, TRUE, "unfollowUser"),
     Route("PUT", <<"profile">>, TRUE, "updateUserProfile"),
     Route("GET", <<"suggestions">>, TRUE, "getSuggestedUsers"),
     Route("GET", <<"search">>, FALSE, "searchUsers") >>

\* no route of the router matches: the request falls through to the 404 of
\* express
NoRoute == Route("", <<>>, FALSE, "none")

Match(pattern, path) ==
  /\ Len(pattern) = Len(path)
  /\ \A i \in DOMAIN pattern : IsParam(pattern[i]) \/ pattern[i] = path[i]

\* the routes are tried in the order of their registration and the first one
\* that matches answers: no handler passes the request on
Dispatch(routes, method, path) ==
  LET hits == {i \in DOMAIN routes :
                 routes[i].method = method /\ Match(routes[i].pattern, path)}
  IN IF hits = {} THEN NoRoute
     ELSE routes[CHOOSE i \in hits : \A j \in hits : i <= j]

\* the cast of a path segment to an ObjectId in Tweet.findById; 0: the cast
\* fails
ObjectId(seg) == CASE seg = "2" -> 2 [] seg = "7" -> 7 [] OTHER -> 0

\* User.findOne({ username }); 0: nobody has the name
UserByName(d, seg) ==
  CASE seg = "a" /\ 1 \in DOMAIN d.users -> 1
    [] seg = "b" /\ 2 \in DOMAIN d.users -> 2
    [] OTHER -> 0

\* the answer of the GET handlers, which read and write nothing back
Serve(d, route, path, actor, query) ==
  LET r(status, msg) == [route EXCEPT !.status = status, !.msg = msg] IN
  IF route.handler = "none" THEN r(404, "Cannot GET")
  ELSE IF route.auth /\ actor = 0 THEN r(401, "Not authorized, no token")
  ELSE IF route.handler \in {"getTweetById", "getTweetReplies"} THEN
    IF ObjectId(path[1]) = 0 THEN r(500, "CastError")
    ELSE IF ~Exists(d, ObjectId(path[1])) THEN r(404, "Tweet not found")
    ELSE r(200, "")
  ELSE IF route.handler \in {"getUserProfile", "getUserTweets"} THEN
    IF UserByName(d, path[1]) = 0 THEN r(404, "User not found")
    ELSE r(200, "")
  ELSE IF route.handler \in {"searchTweets", "searchUsers"} THEN
    IF ~query THEN r(400, "Search query is required")
    ELSE r(200, "")
  ELSE r(200, "")

\* what the log keeps of a GET request and its answer
Served(mount, path, query, answer) ==
  [status |-> answer.status, msg |-> answer.msg, handler |-> answer.handler,
   path |-> path, query |-> query, mount |-> mount]

Get(mount, routes, path, actor, query) ==
  /\ log' = PushLog(log, Served(mount, path, query,
               Serve(DB, Dispatch(routes, "GET", path), path, actor, query)))
  /\ UNCHANGED <<users, tweets, notifications, trending, images, nextId,
                 reqs, nops, created, emitted, sockets, refreshToken, now,
                 replaced>>

GetTweets ==
  \E path \in Paths, actor \in 0..NumUsers, query \in BOOLEAN :
    Get("tweets", tweetRoutes, path, actor, query)

GetUsers ==
  \E path \in Paths, actor \in 0..NumUsers, query \in BOOLEAN :
    Get("users", userRoutes, path, actor, query)

NextRoute == GetTweets \/ GetUsers

\* GET requests to the tweets router and to the users router
SpecRoute == InitThread /\ [][NextRoute]_vars

\* ------------------------------------------------- login, refresh and logout
MaxTime == 1

Login(u, ok) == [NewReq("login", u, 0, <<>>, FALSE) EXCEPT !.flag = ok]

Refresh(tok) == [NewReq("refresh", 0, 0, <<>>, FALSE) EXCEPT !.body = tok]

Logout(u) == NewReq("logout", u, 0, <<>>, FALSE)

\* the tokens a client may send: none, every refresh token and access token
\* the server can have signed so far, and one it has not signed
Presented ==
  {NoToken, [generateRefreshToken(1, 0) EXCEPT !.signed = FALSE]}
    \cup {generateRefreshToken(u, t) : u \in Users, t \in 0..now}
    \cup {generateToken(u, t) : u \in Users, t \in 0..now}

AuthCommit(s, o) ==
  /\ refreshToken' = o.a.refreshToken
  /\ replaced' = o.a.replaced
  /\ IF o.q.pc = "done"
     THEN reqs' = [reqs EXCEPT ![s] = Idle] /\ log' = PushLog(log, Logged(o.q))
     ELSE reqs' = [reqs EXCEPT ![s] = o.q] /\ log' = log
  /\ UNCHANGED <<users, tweets, notifications, trending, images, nextId, nops,
                 created, emitted, sockets, now>>

Tick ==
  /\ now < MaxTime
  /\ now' = now + 1
  /\ UNCHANGED <<users, tweets, notifications, trending, images, nextId, reqs,
                 log, nops, created, emitted, sockets, refreshToken, replaced>>

StartLogin == \E u \in Users, ok \in BOOLEAN : Arrive(Login(u, ok))
StartRefresh == \E tok \in Presented : Arrive(Refresh(tok))
StartLogout == \E u \in 0..NumUsers : Arrive(Logout(u))
LoginFind(s) == At(s, "login", "begin") /\ AuthCommit(s, loginUser_find(Session, reqs[s]))
LoginSave(s) == At(s, "login", "a_loginSave") /\ AuthCommit(s, loginUser_save(Session, reqs[s]))
RefreshFind(s) == At(s, "refresh", "begin") /\ AuthCommit(s, refreshUserToken_find(Session, reqs[s]))
RefreshSave(s) == At(s, "refresh", "a_refreshSave") /\ AuthCommit(s, refreshUserToken_save(Session, reqs[s]))
LogoutFind(s) == At(s, "logout", "begin") /\ AuthCommit(s, logoutUser_find(Session, reqs[s]))
LogoutSave(s) == At(s, "logout", "a_logoutSave") /\ AuthCommit(s, logoutUser_save(Session, reqs[s]))

NextAuth ==
  \/ Tick
  \/ StartLogin
  \/ StartRefresh
  \/ StartLogout
  \/ \E s \in Slots : LoginFind(s)
  \/ \E s \in Slots : LoginSave(s)
  \/ \E s \in Slots : RefreshFind(s)
  \/ \E s \in Slots : RefreshSave(s)
  \/ \E s \in Slots : LogoutFind(s)
  \/ \E s \in Slots : LogoutSave(s)

\* login, refresh and logout requests, interleaved at their awaits, while
\* the clock advances
SpecAuth == Init /\ [][NextAuth]_vars

Quiescent == \A s \in Slots : reqs[s].pc = "idle"

\* ------------------------------------------------- claims on follow/unfollow
Follow(a, b) == NewReq("follow", a, b, <<>>, FALSE)
Unfollow(a, b) == NewReq("unfollow", a, b, <<>>, FALSE)

\* C1: from every reachable state and for all distinct accounts a, b, a
\* follow(a,b) that runs to completion and succeeds leaves b in a.following
\* and a in b.followers, and an unfollow(a,b) run next succeeds and leaves
\* b out of a.following and a out of b.followers.
C1_FollowThenUnfollow ==
  \A a \in Users, b \in Users : a # b =>
    LET f == Run(DB, Follow(a, b)) IN
      f.q.status = 200 =>
        /\ Includes(f.d.users[a].following, b)
        /\ Includes(f.d.users[b].followers, a)
        /\ LET u == Run(f.d, Unfollow(a, b)) IN
             /\ u.q.status = 200
             /\ ~Includes(u.d.users[a].following, b)
             /\ ~Includes(u.d.users[b].followers, a)

\* a follow(a,b) and then an unfollow(a,b) have both succeeded, and neither
\* side of the relation is left
C1_Witness ==
  /\ Quiescent
  /\ Len(log) = 2
  /\ log[1].op = "follow" /\ log[1].status = 200
  /\ log[2].op = "unfollow" /\ log[2].status = 200
  /\ log[1].actor = log[2].actor /\ log[1].target = log[2].target
  /\ ~Includes(users[log[1].actor].following, log[1].target)
  /\ ~Includes(users[log[1].target].followers, log[1].actor)

\* C2: whenever no follow or unfollow request is in flight, b is in
\* a.following exactly if a is in b.followers, for all accounts a and b.
C2_QuiescentSymmetric ==
  Quiescent =>
    \A a \in Users, b \in Users :
      Includes(users[a].following, b) <=> Includes(users[b].followers, a)

\* C3: in every reachable state, follow(a,a) is answered with the
\* self-follow rejection and leaves the whole database as it was.
C3_SelfFollowRejected ==
  \A a \in Users :
    LET f == Run(DB, Follow(a, a)) IN
      /\ f.q.status = 400
      /\ f.q.msg = "You cannot follow yourself"
      /\ f.d = DB

\* a self-follow has been answered while somebody follows somebody
C3_Witness ==
  /\ \E i \in DOMAIN log :
       log[i].op = "follow" /\ log[i].actor = log[i].target /\ log[i].status = 400
  /\ \E a \in Users : users[a].following # <<>>

\* C4: in every reachable state, follow(a,b) with a # b and b already in
\* a.following is answered with a rejection and changes nothing.
C4_AlreadyFollowingRejected ==
  \A a \in Users, b \in Users :
    (a # b /\ Includes(users[a].following, b)) =>
      LET f == Run(DB, Follow(a, b)) IN f.q.status = 400 /\ f.d = DB

Like(a, p) == NewReq("like", a, p, <<>>, FALSE)
Retweet(a, p) == NewReq("retweet", a, p, <<>>, FALSE)

\* C6: for every account A and existing post P, two likeTweet calls of A on
\* P in sequence, with nothing in between, bring P.likes back to the
\* original membership of A and to the original number of likes, and the two
\* calls report opposite isLiked values.
C6_ToggleLikeTwice ==
  \A a \in Users : \A p \in DOMAIN tweets :
    LET first == Run(DB, Like(a, p))
        second == Run(first.d, Like(a, p))
    IN /\ first.q.status = 200
       /\ second.q.status = 200
       /\ first.q.flag # second.q.flag
       /\ Includes(second.d.tweets[p].likes, a) <=> Includes(tweets[p].likes, a)
       /\ Len(second.d.tweets[p].likes) = Len(tweets[p].likes)

\* C7: in every reachable state no notification of type like, retweet or
\* reply has its sender as its recipient.
C7_NoSelfNotification ==
  \A i \in DOMAIN notifications :
    notifications[i].type \in {"like", "retweet", "reply"}
      => notifications[i].sender # notifications[i].recipient

\* an author has liked and has replied to a post of their own
C7_Witness ==
  \E p \in DOMAIN tweets :
    /\ Includes(tweets[p].likes, tweets[p].author)
    /\ \E r \in DOMAIN tweets : /\ Includes(tweets[p].replies, r)
                                /\ tweets[r].author = tweets[p].author

\* C8: likeTweet and retweetTweet create a like / retweet notification
\* (recipient the author of the post, sender the actor, tweet the post) when
\* they add the actor and the author is not the actor, and in no other case;
\* when they remove the actor the notifications stay as they are.  No step
\* of any request takes a notification away, and a step that adds a like or
\* retweet notification belongs to a request that is adding its actor to a
\* post of another account.
C8_NotifyOnAddOnly ==
  /\ [](\A a \in Users : \A p \in DOMAIN tweets :
          \A kind \in {"like", "retweet"} :
            LET r == Run(DB, NewReq(kind, a, p, <<>>, FALSE))
                was == Includes(IF kind = "like" THEN tweets[p].likes
                                ELSE tweets[p].retweets, a)
            IN /\ r.q.status = 200
               /\ r.q.flag = ~was
               /\ r.d.notifications =
                    IF ~was /\ tweets[p].author # a
                    THEN Append(notifications,
                                [recipient |-> tweets[p].author, sender |-> a,
                                 type |-> kind, tweet |-> p, read |-> FALSE])
                    ELSE notifications)
  /\ [][\/ notifications' = notifications
        \/ \E n \in Range(notifications') :
             /\ notifications' = Append(notifications, n)
             /\ n.type \in {"like", "retweet"} =>
                  \E s \in Slots :
                    /\ reqs[s].op = n.type
                    /\ reqs[s].actor = n.sender
                    /\ reqs[s].target = n.tweet
                    /\ reqs[s].owner = n.recipient
                    /\ ~reqs[s].already
                    /\ n.sender # n.recipient]_vars

\* the last two answers are a like and then an un-like of the same post by
\* an account that is not its author; the post has no like left and the
\* like notification is still there
C8_Witness ==
  /\ Len(log) = 2
  /\ log[1].op = "like" /\ log[1].status = 200 /\ log[1].flag
  /\ log[2].op = "like" /\ log[2].status = 200 /\ ~log[2].flag
  /\ log[2].count = 0
  /\ log[1].actor = log[2].actor /\ log[1].target = log[2].target
  /\ log[1].target \in DOMAIN tweets
  /\ tweets[log[1].target].author # log[1].actor
  /\ tweets[log[1].target].likes = <<>>
  /\ \E i \in DOMAIN notifications :
       notifications[i] = [recipient |-> tweets[log[1].target].author,
                           sender |-> log[1].actor, type |-> "like",
                           tweet |-> log[1].target, read |-> FALSE]

\* ------------------------------------------------------- posts with tags
Create(a, p) == NewReq("create", a, 0, p.text, p.file)

\* the '#'+word tokens of a text, lower-cased: every maximal run of word
\* characters that follows a '#'
TagSet(text) ==
  {Lower(SubSeq(text, i + 1, j)) : <<i, j>> \in
     {ij \in (DOMAIN text) \X (DOMAIN text) :
        /\ text[ij[1]] = "#"
        /\ ij[1] < ij[2]
        /\ \A k \in (ij[1] + 1)..ij[2] : IsWord(text[k])
        /\ ij[2] = Len(text) \/ ~IsWord(text[ij[2] + 1])}}

\* C9: createTweet, run on any text with some character other than a space,
\* answers 201 and stores as the hashtags of the new post the '#'+word tokens
\* of the text, lower-cased, each once; the record of each such tag has its
\* count raised by exactly 1 and the post appended to its tweets, whatever
\* the number and the letter case of the tag's occurrences, and a tag used
\* for the first time gets one record with count 1 and the post as its only
\* tweet; the records of other tags stay as they are.  The hashtags the
\* pre('save') hook computes do not depend on the database: they are compared
\* with the tokens on every text of up to MaxTextLen characters, once.
C9_HashtagsAndCounts ==
  /\ nops = 0 =>
       \A text \in Texts :
         /\ Range(Hashtags(Trim(text))) = TagSet(text)
         /\ Len(Hashtags(Trim(text))) = Cardinality(TagSet(text))
  /\ \A a \in Users : \A p \in Posts :
       LET r == Run(DB, Create(a, p))
           id == r.q.newId
           tags == TagSet(p.text)
           old == trending
           new == r.d.trending
       IN /\ r.q.status = 201 <=> Trim(p.text) # <<>>
          /\ r.q.status = 201 =>
               /\ id \notin DOMAIN tweets
               /\ id \in DOMAIN r.d.tweets
               /\ Range(r.d.tweets[id].hashtags) = tags
               /\ Len(r.d.tweets[id].hashtags) = Cardinality(tags)
               /\ Len(new) = Len(old) + Cardinality({g \in tags : ~TrendingHas(old, g)})
               /\ \A i \in DOMAIN old :
                    IF old[i].tag \in tags
                    THEN new[i] = [old[i] EXCEPT !.count = @ + 1,
                                                 !.tweets = Append(@, id)]
                    ELSE new[i] = old[i]
               /\ \A g \in tags : ~TrendingHas(old, g) =>
                    \E i \in DOMAIN new :
                      /\ new[i] = [tweets |-> <<id>>, count |-> 1, tag |-> g,
                                   category |-> "Trending"]
                      /\ \A j \in DOMAIN new : new[j].tag = g => j = i

\* a post whose text names the same tag twice, in two letter cases, has been
\* stored with that one tag, after another post had used the tag: the record
\* counts 2 and ends with this post
C9_Witness ==
  \E id \in DOMAIN tweets : \E i \in DOMAIN trending :
    /\ tweets[id].text = <<"#", "a", "#", "A">>
    /\ tweets[id].hashtags = << <<"a">> >>
    /\ trending[i].tag = <<"a">>
    /\ trending[i].count = 2
    /\ Len(trending[i].tweets) = 2
    /\ trending[i].tweets[2] = id

\* C10: when the createTweet requests that ran, in whatever interleaving,
\* have all answered, every tag has exactly one record, whose count is the
\* number of posts that carry the tag and whose tweets are those posts, each
\* once; and a request that has stored its post never fails afterwards.
C10_ConcurrentUpsert ==
  /\ Quiescent =>
       \A id \in DOMAIN tweets : \A g \in Range(tweets[id].hashtags) :
         LET posts == {t \in DOMAIN tweets : g \in Range(tweets[t].hashtags)} IN
           \E i \in DOMAIN trending :
             /\ trending[i].tag = g
             /\ \A j \in DOMAIN trending : trending[j].tag = g => j = i
             /\ trending[i].count = Cardinality(posts)
             /\ Range(trending[i].tweets) = posts
             /\ Len(trending[i].tweets) = Cardinality(posts)
  /\ \A i \in DOMAIN log : log[i].op = "create" => log[i].status \in {201, 400}
  /\ \A s \in Slots :
       reqs[s].op = "create" /\ reqs[s].pc \notin {"begin", "idle"} =>
         Run(DB, reqs[s]).q.status = 201

\* two posts with the same tag were in flight together: the later post was
\* counted first, the earlier one found no record in its query and the
\* other's record at its insert; both answered 201 and the one record
\* counts both
C10_Witness ==
  /\ Quiescent
  /\ Len(log) = 2
  /\ \A i \in 1..2 : log[i].op = "create" /\ log[i].status = 201
  /\ \E i \in 1..2 : log[i].flag
  /\ \E i \in DOMAIN trending :
       /\ trending[i].count = 2
       /\ trending[i].tweets = <<2, 1>>
       /\ \A j \in DOMAIN trending : trending[j].tag = trending[i].tag => j = i

\* ------------------------------------------- threads: replies and deletes
\* C11: in every state with no request that creates a post in flight, every
\* tag carried by a Tweet document that was ever created (a post, a reply or
\* a retweet shell, deleted since or not) has a trending record whose count
\* is the number of documents ever created that carry the tag.
C11_CountIsPostsEverCreated ==
  (\A s \in Slots : reqs[s].op \notin {"create", "reply", "retweet"}) =>
    \A k \in DOMAIN created : \A g \in Range(created[k]) :
      \E i \in DOMAIN trending :
        /\ trending[i].tag = g
        /\ trending[i].count =
             Cardinality({j \in DOMAIN created : g \in Range(created[j])})

\* ----------------------------------------------------------- mentions
\* the accounts other than  a  whose handle stands in the text as '@'+handle:
\* a maximal run of word characters after an '@' that is the handle
MentionSet(text, a) ==
  {u \in Users \ {a} :
     \E i \in DOMAIN text : \E j \in DOMAIN text :
       /\ text[i] = "@"
       /\ i < j
       /\ \A k \in (i + 1)..j : IsWord(text[k])
       /\ j = Len(text) \/ ~IsWord(text[j + 1])
       /\ SubSeq(text, i + 1, j) = Username(u)}

\* C12: createTweet on a text that is stored answers 201 and adds exactly one
\* mention notification (recipient the account, sender the author, tweet the
\* new post, unread) for each account other than the author whose handle
\* stands in the text, however often, and nothing else; a handle of no
\* account adds nothing and is no error.  Checked from every state for the
\* posts submitted, and once for every text of up to MaxTextLen characters.
C12_MentionNotifications ==
  \A a \in Users :
    \A text \in {p.text : p \in Posts} \cup (IF nops = 0 THEN Texts ELSE {}) :
      LET r == Run(DB, NewReq("create", a, 0, text, FALSE))
          had == Len(notifications)
          added == SubSeq(r.d.notifications, had + 1, Len(r.d.notifications))
      IN /\ r.q.status = 201 <=> Trim(text) # <<>>
         /\ SubSeq(r.d.notifications, 1, had) = notifications
         /\ r.q.status = 201 =>
              /\ Len(added) = Cardinality(MentionSet(text, a))
              /\ Range(added) =
                   {[recipient |-> u, sender |-> a, type |-> "mention",
                     tweet |-> r.q.newId, read |-> FALSE] : u \in MentionSet(text, a)}
         /\ r.q.status # 201 => added = <<>>

\* the same text, with the handle of account 2 and a handle of no account,
\* has been posted by account 1 and by account 2: the only mention
\* notification is the one from 1 to 2
C12_Witness ==
  \E t1 \in DOMAIN tweets : \E t2 \in DOMAIN tweets :
    /\ tweets[t1].author = 1 /\ tweets[t2].author = 2
    /\ tweets[t1].text = <<"@", "b", "@", "A", "#", "A">>
    /\ tweets[t2].text = tweets[t1].text
    /\ Quiescent
    /\ notifications = <<[recipient |-> 2, sender |-> 1, type |-> "mention",
                          tweet |-> t1, read |-> FALSE]>>

\* ------------------------------------------------------------- retweets
\* C13: retweetTweet by A on P, from a state where A is not in P.retweets,
\* adds A to P.retweets and creates exactly one post, a retweet shell of P
\* by A; a second retweetTweet by A on P right after deletes exactly that
\* shell, no other post, and takes A out of P.retweets.
C13_RetweetThenUndo ==
  \A a \in Users : \A p \in DOMAIN tweets :
    ~Includes(tweets[p].retweets, a) =>
      LET first == Run(DB, Retweet(a, p))
          shell == first.q.newId
          second == Run(first.d, Retweet(a, p))
      IN /\ first.q.status = 200
         /\ Includes(first.d.tweets[p].retweets, a)
         /\ DOMAIN first.d.tweets = DOMAIN tweets \cup {shell}
         /\ shell \notin DOMAIN tweets
         /\ first.d.tweets[shell].isRetweet
         /\ first.d.tweets[shell].originalTweet = p
         /\ first.d.tweets[shell].author = a
         /\ second.q.status = 200
         /\ DOMAIN second.d.tweets = DOMAIN first.d.tweets \ {shell}
         /\ ~Includes(second.d.tweets[p].retweets, a)

\* C14: in every state with no reply or delete request in flight, for every
\* existing post P the list P.replies holds the id of each existing reply
\* whose parentTweet is P exactly once, and no other id.
C14_RepliesListExact ==
  (\A s \in Slots : reqs[s].op \notin {"reply", "delete"}) =>
    \A p \in DOMAIN tweets :
      /\ Range(tweets[p].replies) =
           {r \in DOMAIN tweets : tweets[r].isReply /\ tweets[r].parentTweet = p}
      /\ Len(tweets[p].replies) = Cardinality(Range(tweets[p].replies))

Delete(a, p) == NewReq("delete", a, p, <<>>, FALSE)

\* C15: deleteTweet by its author on a reply R answers 200, takes the id of
\* R out of the replies of its parent, deletes every notification whose
\* tweet is R and deletes R; the other notifications, every other field of
\* the parent, every other post, the accounts, the trending records and the
\* images stay as they are.
C15_DeleteReply ==
  \A r \in DOMAIN tweets :
    tweets[r].isReply =>
      LET x == Run(DB, Delete(tweets[r].author, r))
          parent == tweets[r].parentTweet
      IN /\ x.q.status = 200
         /\ DOMAIN x.d.tweets = (DOMAIN tweets) \ {r}
         /\ \A t \in DOMAIN x.d.tweets :
              x.d.tweets[t] = IF t = parent
                              THEN [tweets[t] EXCEPT !.replies = Without(@, r)]
                              ELSE tweets[t]
         /\ parent \in DOMAIN x.d.tweets => ~Includes(x.d.tweets[parent].replies, r)
         /\ x.d.notifications =
              [i \in DOMAIN notifications |->
                 IF notifications[i].tweet = r THEN Gone ELSE notifications[i]]
         /\ x.d.users = users
         /\ x.d.trending = trending
         /\ x.d.images = images

\* a reply that another account had liked has been deleted by its author:
\* the reply and the like notification are gone, the parent no longer lists
\* it, and the notification of the reply itself, which is about the parent,
\* is still there
C15_Witness ==
  /\ Len(log) = 2
  /\ log[1].op = "like" /\ log[1].status = 200 /\ log[1].flag
  /\ log[2].op = "delete" /\ log[2].status = 200 /\ log[2].flag
  /\ log[1].target = log[2].target
  /\ log[1].actor # log[2].actor
  /\ log[2].target \notin DOMAIN tweets
  /\ \A p \in DOMAIN tweets : ~Includes(tweets[p].replies, log[2].target)
  /\ \A i \in DOMAIN notifications : notifications[i].tweet # log[2].target
  /\ \E i \in DOMAIN notifications :
       /\ notifications[i].type = "reply"
       /\ notifications[i].sender = log[2].actor
       /\ notifications[i].tweet \in DOMAIN tweets

\* C16: deleteTweet by an account that is not the author of the post answers
\* 403 and changes nothing: no post, notification, image, account or
\* trending record, and no replies or retweets list.
C16_DeleteForbidden ==
  \A a \in Users : \A p \in DOMAIN tweets :
    tweets[p].author # a =>
      LET x == Run(DB, Delete(a, p)) IN
        /\ x.q.status = 403
        /\ x.q.msg = "Not authorized to delete this tweet"
        /\ x.d = DB

\* the last request was a delete, refused with 403, of a post with an image
\* and a reply: the post, its image and its replies are still there
C16_Witness ==
  /\ log # <<>>
  /\ log[Len(log)].op = "delete"
  /\ log[Len(log)].status = 403
  /\ log[Len(log)].target \in DOMAIN tweets
  /\ tweets[log[Len(log)].target].author # log[Len(log)].actor
  /\ tweets[log[Len(log)].target].imageUrl \in images
  /\ tweets[log[Len(log)].target].replies # <<>>

\* ------------------------------------------ failures of the side effects
\* C17: when Notification.create rejects during likeTweet, retweetTweet,
\* replyToTweet or followUser, the request still answers with success and
\* its own change is in the database: the actor in the likes or the retweets
\* of the post, the reply in the replies of its parent, the two follow edges.
C17_NotificationFailureTolerated ==
  \A a \in Users :
    /\ \A p \in DOMAIN tweets :
         tweets[p].author # a =>
           /\ ~Includes(tweets[p].likes, a) =>
                LET r == Run(DB, Failing(Like(a, p), "notification")) IN
                  r.q.status = 200 /\ Includes(r.d.tweets[p].likes, a)
           /\ ~Includes(tweets[p].retweets, a) =>
                LET r == Run(DB, Failing(Retweet(a, p), "notification")) IN
                  r.q.status = 200 /\ Includes(r.d.tweets[p].retweets, a)
           /\ LET r == Run(DB, Failing(NewReq("reply", a, p, Plain, FALSE), "notification")) IN
                r.q.status = 201 /\ Includes(r.d.tweets[p].replies, r.q.newId)
    /\ \A b \in Users \ {a} :
         ~Includes(users[b].followers, a) =>
           LET r == Run(DB, Failing(Follow(a, b), "notification")) IN
             /\ r.q.status = 200
             /\ Includes(r.d.users[b].followers, a)
             /\ Includes(r.d.users[a].following, b)

\* C18: when the trending upsert or the creation of a mention notification
\* rejects during createTweet, after the post was stored, the request still
\* answers 201.
C18_PostSideEffectFailureTolerated ==
  \A a \in Users : \A f \in {"trending", "notification"} :
    LET text == <<"@", "a", "@", "b", "#", "b">>
        r == Run(DB, Failing(NewReq("create", a, 0, text, FALSE), f))
    IN /\ r.q.newId \in DOMAIN r.d.tweets
       /\ r.q.status = 201

\* C19: when the release of the image rejects during deleteTweet by the
\* author of a post with an image, the request still answers 200 and the
\* post, the notifications about it and its entry in the replies of its
\* parent are gone.
C19_ImageFailureTolerated ==
  \A p \in DOMAIN tweets :
    tweets[p].imageUrl # 0 =>
      LET r == Run(DB, Failing(Delete(tweets[p].author, p), "image")) IN
        /\ r.q.status = 200
        /\ p \notin DOMAIN r.d.tweets
        /\ \A i \in DOMAIN r.d.notifications : r.d.notifications[i].tweet # p
        /\ \A t \in DOMAIN r.d.tweets : ~Includes(r.d.tweets[t].replies, p)

\* ------------------------------------------------- errors and their effect
\* C20: whenever createTweet, replyToTweet, likeTweet, retweetTweet,
\* followUser, unfollowUser, deleteTweet or markAsRead ends with a
\* validation, not-found, conflict or forbidden error (400, 403, 404), the
\* accounts, posts, notifications, trending records and images are exactly
\* as they were before the request.
C20_ErrorsChangeNothing ==
  \A a \in Users :
    \A q \in {NewReq("create", a, 0, p.text, p.file) : p \in Posts}
          \cup {NewReq("reply", a, t, text, FALSE) :
                  t \in Ids, text \in {<<>>, <<" ">>, Plain}}
          \cup {NewReq(op, a, t, <<>>, FALSE) :
                  op \in {"like", "retweet", "delete"}, t \in Ids}
          \cup {NewReq(op, a, b, <<>>, FALSE) :
                  op \in {"follow", "unfollow"}, b \in Users}
          \cup {NewReq("read", a, n, <<>>, FALSE) :
                  n \in 1..(Len(notifications) + 1)} :
      LET r == Run(DB, q) IN
        r.q.status \in {400, 403, 404} => r.d = DB

\* ------------------------------------------------ image-only and empty posts
\* C21: createTweet with an image and no text answers 201 and stores exactly
\* one new post, written by the actor, that carries the uploaded image;
\* createTweet with neither text nor image answers 400 and leaves the
\* database as it was.
C21_ImageWithoutText ==
  \A a \in Users :
    LET r == Run(DB, NewReq("create", a, 0, <<>>, TRUE))
        n == Run(DB, NewReq("create", a, 0, <<>>, FALSE)) IN
      /\ r.q.status = 201
      /\ \E t \in DOMAIN r.d.tweets \ DOMAIN tweets :
           /\ DOMAIN r.d.tweets = DOMAIN tweets \cup {t}
           /\ r.d.tweets[t].author = a
           /\ r.d.tweets[t].imageUrl \in r.d.images
      /\ n.q.status = 400
      /\ n.d = DB

\* ------------------------------------------------------ follow called twice
\* C22 (as the code has it): the follow endpoint is not a toggle. From every
\* reachable state and for all distinct accounts a, b, a second follow(a,b)
\* run after a first one is answered 400 and changes nothing: the first
\* call's effect stays (a is still in b.followers and b in a.following when
\* the first call succeeded). Only the separate unfollow endpoint undoes it.
C22_SecondFollowRejected ==
  \A a \in Users, b \in Users : a # b =>
    LET f == Run(DB, Follow(a, b))
        g == Run(f.d, Follow(a, b)) IN
      /\ g.q.status = 400
      /\ g.d = f.d
      /\ f.q.status = 200 =>
           /\ Includes(g.d.users[b].followers, a)
           /\ Includes(g.d.users[a].following, b)

\* C22 (as stated): the same follow call issued twice flips the follow state
\* each time, so the second call undoes the first.
C22_FollowIsToggle ==
  \A a \in Users, b \in Users : a # b =>
    LET f == Run(DB, Follow(a, b))
        g == Run(f.d, Follow(a, b)) IN
      f.q.status = 200 =>
        /\ g.q.status = 200
        /\ ~Includes(g.d.users[b].followers, a)
        /\ ~Includes(g.d.users[a].following, b)

\* a follow has succeeded, the same call was then refused, and the relation
\* is still there
C22_Witness ==
  /\ Quiescent
  /\ Len(log) = 2
  /\ log[1].op = "follow" /\ log[1].status = 200
  /\ log[2].op = "follow" /\ log[2].status = 400
  /\ log[1].actor = log[2].actor /\ log[1].target = log[2].target
  /\ Includes(users[log[1].actor].following, log[1].target)
  /\ Includes(users[log[1].target].followers, log[1].actor)

\* ---------------------------------------------------------- realtime events
\* the notification events emitted so far that carry notification  n
EventsOf(n) ==
  {k \in DOMAIN emitted :
     /\ emitted[k].event = "notification"
     /\ emitted[k].payload = [n EXCEPT !.read = FALSE]}

\* C23: once the requests have answered, every Notification record that was
\* created has been emitted as a notification event on the channel of its
\* recipient, and on the channel of no other account.
C23_NotificationEmitted ==
  Quiescent =>
    \A i \in DOMAIN notifications :
      /\ \E k \in EventsOf(notifications[i]) :
           emitted[k].room = notifications[i].recipient
      /\ \A k \in EventsOf(notifications[i]) :
           emitted[k].room = notifications[i].recipient

\* the new-post events emitted by  r  that carry post  t
PostEvents(r, t) ==
  {k \in DOMAIN r.d.emitted :
     /\ r.d.emitted[k].event = "new_tweet"
     /\ r.d.emitted[k].payload = r.d.tweets[t]}

\* C24: from every reachable state, a createTweet that runs to completion
\* and succeeds has emitted a new-post event carrying the post on the channel
\* of every account that follows the author, and on no other channel.
C24_NewPostEmitted ==
  \A a \in Users :
    LET r == Run(DB, NewReq("create", a, 0, Plain, FALSE)) IN
      r.q.status = 201 =>
        \A t \in DOMAIN r.d.tweets \ DOMAIN tweets :
          {r.d.emitted[k].room : k \in PostEvents(r, t)}
            = Range(users[a].followers)

\* ----------------------------------------------------- realtime connections
\* one step of a connection: the middleware, then the connection handler
SocketNext(d, k) ==
  CASE k.pc = "handshake" -> ioUse_verify(k)
    [] k.pc = "lookup" -> ioUse_find(d, k)
    [] k.pc = "accepted" -> ioConnection(k)
    [] OTHER -> k

\* a connection run until it is connected or refused
RECURSIVE Handshake(_, _)
Handshake(d, k) ==
  IF k.pc \in {"connected", "rejected", "closed"} THEN k
  ELSE Handshake(d, SocketNext(d, k))

\* the token is signed for an account that exists
GoodToken(t) == t.kind = "signed" /\ t.id \in DOMAIN users

\* C25: a connection is in a channel only when it is connected, its token
\* is signed for an existing account and the channel is that account's own;
\* it gets past the middleware only with such a token; and a handshake run
\* to its end connects the holder of such a token to its own channel alone
\* and refuses every other token (absent, not verifiable, or signed for an
\* id no account has) with no channel joined.
C25_OwnChannelOnly ==
  /\ \A c \in Conns :
       LET k == sockets[c] IN
         /\ k.rooms # {} =>
              k.pc = "connected" /\ GoodToken(k.token) /\ k.rooms = {k.token.id}
         /\ k.pc \in {"accepted", "connected"} =>
              GoodToken(k.token) /\ k.user = k.token.id
         /\ LET e == Handshake(DB, k) IN
              IF k.pc = "closed" THEN e = k
              ELSE IF GoodToken(k.token)
              THEN e.pc = "connected" /\ e.rooms = {k.token.id}
              ELSE e.pc = "rejected" /\ e.rooms = {}
  /\ \A t \in Tokens :
       LET e == Handshake(DB, NewSocket(t)) IN
         IF GoodToken(t)
         THEN e.pc = "connected" /\ e.rooms = {t.id}
         ELSE e.pc = "rejected" /\ e.rooms = {}

\* one connection sits in its account's own channel while another, whose
\* token was signed for an id no account has, was refused after the lookup
C25_Witness ==
  \E c \in Conns, r \in Conns :
    /\ sockets[c].pc = "connected"
    /\ sockets[c].rooms = {sockets[c].token.id}
    /\ sockets[r].pc = "rejected"
    /\ sockets[r].token.kind = "signed"
    /\ sockets[r].err = "User not found"
    /\ sockets[r].rooms = {}

\* ------------------------------------------------------- the home timeline
\* C26: from every reachable state, getTimeline for viewer v, page p and
\* limit l answers 200, changes nothing, and lists exactly the posts that are
\* written by, or whose retweets hold, an account of v.following or v itself
\* and that have at least (p-1)*l and fewer than p*l newer posts of that kind;
\* the list is in order of creation, newest first, has at most l entries,
\* and each entry carries isLiked / isRetweeted as v's membership in the
\* post's likes / retweets and the lengths of its likes, retweets and
\* replies.
C26_Timeline ==
  \A v \in Users, p \in 1..MaxPage, l \in 1..MaxLimit :
    LET r == Run(DB, Timeline(v, p, l))
        b == r.q.body
        S == Range(users[v].following) \cup {v}
        M == {t \in DOMAIN tweets :
                \/ tweets[t].author \in S
                \/ Range(tweets[t].retweets) \cap S # {}}
        Newer(t) == Cardinality({u \in M : u > t})
    IN /\ r.q.status = 200
       /\ r.d = DB
       /\ Len(b) <= l
       /\ {b[i].id : i \in DOMAIN b}
            = {t \in M : (p - 1) * l <= Newer(t) /\ Newer(t) < p * l}
       /\ \A i \in DOMAIN b : \A j \in DOMAIN b : i < j => b[i].id > b[j].id
       /\ \A i \in DOMAIN b :
            LET t == tweets[b[i].id] IN
              /\ b[i].isLiked = (v \in Range(t.likes))
              /\ b[i].isRetweeted = (v \in Range(t.retweets))
              /\ b[i].likes = Len(t.likes)
              /\ b[i].retweets = Len(t.retweets)
              /\ b[i].replies = Len(t.replies)
              /\ b[i].author = t.author /\ b[i].text = t.text

\* a timeline request of account 1 has answered, and the second page of
\* size one of that timeline is a post of another account, which account 1
\* follows nobody to see but has retweeted
C26_Witness ==
  /\ Quiescent
  /\ Len(log) > 0
  /\ log[Len(log)].op = "timeline"
  /\ log[Len(log)].actor = 1
  /\ log[Len(log)].status = 200
  /\ users[1].following = <<>>
  /\ LET b == Run(DB, Timeline(1, 2, 1)).q.body IN
       /\ Len(b) = 1
       /\ b[1].author # 1
       /\ b[1].isRetweeted
       /\ b[1].retweets = 1

\* ------------------------------------------------ notifications stay as made
\* the step is the deleteMany of a delete request for post  t
DeletesAbout(t) ==
  \E s \in Slots :
    /\ reqs[s].op = "delete" /\ reqs[s].target = t
    /\ reqs[s].pc = "d_notifications"
    /\ reqs'[s] # reqs[s]

\* C27: in every step, every Notification keeps its id, and either stays as
\* it is, or changes in its read flag alone, or is removed by the deleteMany
\* of a deleteTweet of the post it is about; a removed Notification stays
\* removed. In particular no step of likeTweet, retweetTweet, markAsRead or
\* markAllAsRead removes one or changes its recipient, sender, type or post.
C27_NotificationImmutable ==
  [][/\ Len(notifications') >= Len(notifications)
     /\ \A i \in DOMAIN notifications :
          LET n == notifications[i]
              m == notifications'[i]
          IN \/ m = n
             \/ /\ n # Gone /\ m # Gone
                /\ [m EXCEPT !.read = n.read] = n
             \/ /\ n # Gone /\ m = Gone
                /\ n.tweet # 0
                /\ DeletesAbout(n.tweet)]_vars

\* the like notification of the first post was read by its recipient and
\* was then removed when the post was deleted
C27_Witness ==
  /\ Quiescent
  /\ Len(log) = 2
  /\ log[1].op = "read" /\ log[1].status = 200
  /\ log[2].op = "delete" /\ log[2].status = 200
  /\ Len(notifications) = 1
  /\ notifications[1] = Gone

\* ------------------------------------------------- retweets and their shells
\* the retweet documents of account  a  for post  p
Shells(a, p) ==
  {t \in DOMAIN tweets :
     /\ tweets[t].isRetweet
     /\ tweets[t].author = a
     /\ tweets[t].originalTweet = p}

\* C28: whenever no retweet and no delete request is in flight, for every
\* account a and every post p that exists, a is in p.retweets exactly if
\* there is exactly one retweet document by a whose original is p.
C28_OneShellPerRetweet ==
  (\A s \in Slots : reqs[s].op \notin {"retweet", "delete"}) =>
    \A a \in Users : \A p \in DOMAIN tweets :
      Includes(tweets[p].retweets, a) <=> Cardinality(Shells(a, p)) = 1

\* ------------------------------------------------- two likes that overlap
\* the requests in slots  s1  and  s2  are likeTweet calls of one account on
\* one post that have both read the same membership of the post as it is
\* now, and neither has saved
Racing(s1, s2) ==
  /\ s1 # s2
  /\ reqs[s1].op = "like" /\ reqs[s2].op = "like"
  /\ reqs[s1].pc \in {"l_notify", "l_save"} /\ reqs[s2].pc \in {"l_notify", "l_save"}
  /\ reqs[s1].actor = reqs[s2].actor
  /\ reqs[s1].target = reqs[s2].target
  /\ reqs[s1].already = reqs[s2].already
  /\ Exists(DB, reqs[s1].target)
  /\ tweets[reqs[s1].target].v = reqs[s1].readV
  /\ tweets[reqs[s1].target].v = reqs[s2].readV

\* C29: whenever two likeTweet calls of one account on one post have both
\* read the same membership before either has saved, letting both complete
\* leaves the account's membership in the post's likes different from what
\* two likeTweet calls run one after the other produce from the same state:
\* if both read "not liked" the account ends in the likes twice (the like is
\* doubled, the count is two above where sequential calls end), and if both
\* read "liked" the account ends out of the likes (the second call's save
\* fails and its toggle is lost) where sequential calls end with it in.
C29_OverlappingLikesNotSerialized ==
  \A s1 \in Slots : \A s2 \in Slots :
    Racing(s1, s2) =>
      LET a == reqs[s1].actor
          p == reqs[s1].target
          both == Run(Run(DB, reqs[s1]).d, reqs[s2]).d.tweets[p].likes
          seq == Run(Run(DB, Like(a, p)).d, Like(a, p)).d.tweets[p].likes
      IN /\ Includes(both, a) # Includes(seq, a)
         /\ IF reqs[s1].already
            THEN ~Includes(both, a) /\ Includes(seq, a)
            ELSE /\ Len(SelectSeq(both, LAMBDA x : x = a)) = 2
                 /\ Len(both) = Len(seq) + 2

\* two likeTweet calls of one account on one post have overlapped and
\* completed: both answered "liked", and the account is in the likes twice
C29_Witness ==
  /\ Quiescent
  /\ Len(log) = 2
  /\ log[1].op = "like" /\ log[2].op = "like"
  /\ log[1].status = 200 /\ log[2].status = 200
  /\ log[1].flag /\ log[2].flag
  /\ log[1].actor = log[2].actor /\ log[1].target = log[2].target
  /\ Exists(DB, log[1].target)
  /\ tweets[log[1].target].likes = <<log[1].actor, log[1].actor>>

\* ------------------------------------------------- likes and retweets as sets
\* C30: in every reachable state every post holds each account at most once
\* in its likes and at most once in its retweets, so that the lengths of the
\* two lists, which are the counts reported, are the numbers of distinct
\* accounts in them.
C30_LikesAndRetweetsAreSets ==
  \A p \in DOMAIN tweets :
    /\ Len(tweets[p].likes) = Cardinality(Range(tweets[p].likes))
    /\ Len(tweets[p].retweets) = Cardinality(Range(tweets[p].retweets))

\* ------------------------------------------- what a like or retweet leaves alone
\* how often account  b  is in the list  arr
Times(arr, b) == Len(SelectSeq(arr, LAMBDA x : x = b))

\* C31: no step of a likeTweet or retweetTweet request of account a changes,
\* in any post, how often any other account is in the likes or in the
\* retweets, nor the replies of any post, whatever like, retweet and reply
\* requests of other accounts it is interleaved with; so what those requests
\* have added is still there when they have completed.
C31_OthersUntouched ==
  [][\A s \in Slots :
       (reqs[s].op \in {"like", "retweet"} /\ reqs[s].pc # "idle"
          /\ reqs'[s] # reqs[s]) =>
         \A p \in DOMAIN tweets :
           /\ p \in DOMAIN tweets' =>
                /\ tweets'[p].replies = tweets[p].replies
                /\ \A b \in Users \ {reqs[s].actor} :
                     /\ Times(tweets'[p].likes, b) = Times(tweets[p].likes, b)
                     /\ Times(tweets'[p].retweets, b) = Times(tweets[p].retweets, b)
           /\ p \notin DOMAIN tweets' =>
                /\ tweets[p].isRetweet
                /\ tweets[p].author = reqs[s].actor]_vars

\* an unlike of one account has overlapped with the like of another on the
\* same post: the like was saved first, the unlike then failed its version
\* check, and both accounts are in the likes
C31_Witness ==
  /\ Quiescent
  /\ Len(log) = 2
  /\ log[1].op = "like" /\ log[1].status = 200 /\ log[1].flag
  /\ log[2].op = "like" /\ log[2].status = 500
  /\ log[1].target = log[2].target
  /\ log[1].actor # log[2].actor
  /\ Exists(DB, log[1].target)
  /\ Includes(tweets[log[1].target].likes, log[1].actor)
  /\ Includes(tweets[log[1].target].likes, log[2].actor)

\* ------------------------------------------------- references between posts
\* C32: in every reachable state the parentTweet of every reply and the
\* originalTweet of every retweet document is a post that exists; deleting a
\* post leaves no reply and no retweet document pointing at it.
C32_ParentAndOriginalExist ==
  \A t \in DOMAIN tweets :
    /\ tweets[t].isReply => tweets[t].parentTweet \in DOMAIN tweets
    /\ tweets[t].isRetweet => tweets[t].originalTweet \in DOMAIN tweets

\* ------------------------------------------- notifications and their posts
\* C33: in every reachable state the post of every notification that has one
\* exists; when a post is removed, by deleteTweet or by an undone retweet
\* removing the retweet document, the notifications about it are removed too.
C33_NotificationPostExists ==
  \A i \in DOMAIN notifications :
    (notifications[i] # Gone /\ notifications[i].tweet # 0) =>
      notifications[i].tweet \in DOMAIN tweets

\* -------------------------------------------------- routes with a fixed path
\* the answers to GET requests for the path  segs  below the mount
Answers(mount, segs) ==
  {i \in DOMAIN log :
     /\ "mount" \in DOMAIN log[i]
     /\ log[i].mount = mount
     /\ log[i].path = segs}

\* C34: GET /search of the tweets router, GET /search and GET /suggestions of
\* the users router are each answered by their own handler and not by the
\* handler of a parameter route registered before them; a tweet search
\* without a query is answered 400 'Search query is required'.
C34_FixedRoutesReachTheirHandler ==
  /\ \A i \in Answers("tweets", <<"search">>) :
       /\ log[i].handler = "searchTweets"
       /\ ~log[i].query =>
            log[i].status = 400 /\ log[i].msg = "Search query is required"
  /\ \A i \in Answers("users", <<"search">>) : log[i].handler = "searchUsers"
  /\ \A i \in Answers("users", <<"suggestions">>) :
       log[i].handler = "getSuggestedUsers"

\* ------------------------------------------------------------ refresh tokens
\* C35: the refresh operation accepts a token only if it is the stored refresh
\* token of its account; in every state reached by login, refresh and logout
\* requests, a refresh token that a later login or refresh has replaced or a
\* logout has cleared is rejected, and a rejected refresh changes no stored
\* token.
C35_ReplacedRefreshTokenRejected ==
  \A tok \in Presented \cup replaced :
    LET o == AuthRun(Session, Refresh(tok)) IN
      /\ o.q.status = 200 =>
           tok.id \in Users /\ tok = refreshToken[tok.id]
      /\ tok \in replaced => o.q.status = 401
      /\ o.q.status # 200 => o.a.refreshToken = refreshToken

====
